---- MODULE Spec2Model ----
(***************************************************************************)
(* Profile Store of Chess with Kaelith (src/core/profile_manager.py).      *)
(*                                                                         *)
(* The store is modelled as the ProfileManager object: the insertion       *)
(* ordered dict _profiles, _active_profile_id and the persistence file.    *)
(* Strings are sequences of one-character strings, so that str.strip and   *)
(* str.lower are computed and not assumed.  Timestamps are the integer     *)
(* readings of the wall clock (datetime.now().isoformat() is a fixed-width *)
(* string whose lexicographic order is the order of the readings).         *)
(* games_played stands for the six integer fields of PlayerProfile that    *)
(* have a default; the code treats them alike.                             *)
(*                                                                         *)
(* Spec      calls on a store constructed without a file, all writes       *)
(*           succeeding, within one reading of the clock                   *)
(* SpecTime  the same store while the clock advances                       *)
(* SpecIO    the same store when writes may fail                           *)
(* SpecLoad  stores constructed over files of every kind, among them the   *)
(*           file an earlier session left after four create_profile calls  *)
(* SpecUpdate  update_profile called with every kind of keyword            *)
(*                                                                         *)
(* The Audio Engine (src/core/audio_manager.py) is modelled as the         *)
(* AudioManager object with its playlists, beside the settings store, the  *)
(* audio directory and the pygame music stream it drives.                  *)
(*                                                                         *)
(* SpecPlay      playback: request_music, play_next, pause, resume, stop   *)
(* SpecPlaylist  calls on one Playlist of three tracks                     *)
(* SpecConfig    playlist configuration, saved and loaded by a new engine  *)
(* SpecNoAudio   every public method when the backend is unavailable       *)
(* SpecOptions   the sound tab: two tracks toggled, reordered, shuffled    *)
(*               and skipped while the menu music plays                    *)
(* SpecNotify    track-change callbacks registered and unregistered        *)
(* SpecVolume    the three volume setters and the gain of the stream       *)
(* SpecReload    a new engine after a file was added to the directory      *)
(* SpecReorder   reorder_tracks on three tracks                            *)
(***************************************************************************)
EXTENDS Integers, Sequences, FiniteSets, TLC

(***************************************************************************)
(* Program constants and bounds of the model                               *)
(***************************************************************************)
MAX_PROFILES == 5

\* number of uuid4 values PlayerProfile.create_new can draw in one behaviour
MaxIds == 3
\* last reading of the wall clock
MaxTime == 1
\* number of update_profile calls in one behaviour
MaxUpdates == 1
\* number of _save calls that hit an I/O error in one behaviour
MaxWriteFailures == 1

\* None as an id, and None as a profile
NoId == 0
None == [none |-> TRUE]

(***************************************************************************)
(* Strings                                                                 *)
(***************************************************************************)
Whitespace == {" "}

\* str.lower on one character
LowerChar(c) ==
  CASE c = "A" -> "a"
    [] c = "B" -> "b"
    [] c = "D" -> "d"
    [] OTHER -> c

\* str.lower
Lower(s) == [i \in 1..Len(s) |-> LowerChar(s[i])]

RECURSIVE LStrip(_)
LStrip(s) ==
  IF s = <<>> THEN s
  ELSE IF Head(s) \in Whitespace THEN LStrip(Tail(s)) ELSE s

RECURSIVE RStrip(_)
RStrip(s) ==
  IF s = <<>> THEN s
  ELSE IF s[Len(s)] \in Whitespace THEN RStrip(SubSeq(s, 1, Len(s) - 1)) ELSE s

\* str.strip
Strip(s) == RStrip(LStrip(s))

\* nicknames handed to create_profile
NicknameInputs ==
  { <<" ">>, <<"A">>, <<" ", "a", " ">>, <<"b">>, <<"c">> }

\* nicknames handed to update_profile(nickname=...)
NicknameUpdates == { <<"a">> }

(***************************************************************************)
(* PlayerProfile                                                           *)
(***************************************************************************)
\* create_new storing the nickname lower-cased
create_new_Lowered(uuid, nickname, t) ==
  [id |-> uuid, nickname |-> [i \in 1..Len(nickname) |->
                                LowerChar(nickname[i])],
   created_at |-> t, last_played |-> t, games_played |-> 0]

\* PlayerProfile.create_new: uuid4 id, both timestamps now, counters default
create_new(uuid, nickname, t) ==
  [id |-> uuid, nickname |-> nickname, created_at |-> t, last_played |-> t,
   games_played |-> 0]

\* PlayerProfile.update_last_played
update_last_played(p, t) == [p EXCEPT !.last_played = t]

\* PlayerProfile.to_dict (dataclasses.asdict)
to_dict(p) ==
  [id |-> p.id, nickname |-> p.nickname, created_at |-> p.created_at,
   last_played |-> p.last_played, games_played |-> p.games_played]

(***************************************************************************)
(* State                                                                   *)
(***************************************************************************)
VARIABLES
  profiles,   \* _profiles: sequence of [key, profile] in dict insertion order
  active,     \* _active_profile_id, NoId for None
  file,       \* content of the persistence file
  now,        \* reading of the wall clock
  nextId,     \* next value uuid4 yields
  updates,    \* update_profile calls so far
  failures,   \* failed writes so far
  constructed,\* ProfileManager.__init__ returned an object
  shadowed,   \* keys of the profile objects whose to_dict method is hidden by
              \* an instance attribute
  last        \* the last call: operation, arguments, return value, exception

storeVars ==
  <<profiles, active, file, now, nextId, updates, failures, constructed,
    shadowed, last>>

\* the Audio Engine (src/core/audio_manager.py)
VARIABLES
  audio_available,  \* AUDIO_AVAILABLE: pygame imported and the mixer opened
  files,            \* the audio directory: file name -> "ok", "missing" (gone
                    \* since the scan) or "corrupt" (the mixer cannot load it)
  settings,         \* the SettingsManager handed to the engine, or NoSettings
  playlists,        \* _playlists: category -> Playlist
  current_category, \* _current_category, NoCategory for None
  current_track,    \* _current_track, None or a Track
  is_playing,       \* _is_playing
  is_paused,        \* _is_paused
  master_volume,    \* _master_volume, in hundredths
  music_volume,     \* _music_volume, in hundredths
  effects_volume,   \* _effects_volume, in hundredths
  on_track_change,  \* _on_track_change: the registered callbacks, in order
  mixer,            \* pygame.mixer.music: what the stream does, and its gain
  alast             \* the last call on the engine

audioVars ==
  <<audio_available, files, settings, playlists, current_category,
    current_track, is_playing, is_paused, master_volume, music_volume,
    effects_volume, on_track_change, mixer, alast>>

vars == <<storeVars, audioVars>>

Keys(ps) == {ps[i].key : i \in 1..Len(ps)}

\* dict lookup: index of key k in ps, 0 when absent
IndexOf(ps, k) ==
  IF k \in Keys(ps) THEN CHOOSE i \in 1..Len(ps) : ps[i].key = k ELSE 0

\* _profiles.get(profile_id)
get_profile(ps, k) ==
  IF k \in Keys(ps) THEN ps[IndexOf(ps, k)].profile ELSE None

\* del _profiles[profile_id]
DictDelete(ps, k) == SelectSeq(ps, LAMBDA e : e.key # k)

\* _profiles[key] = profile (a new key goes last, an old key keeps its place)
DictSet(ps, k, p) ==
  IF k \in Keys(ps)
  THEN [ps EXCEPT ![IndexOf(ps, k)] = [key |-> k, profile |-> p]]
  ELSE Append(ps, [key |-> k, profile |-> p])

(***************************************************************************)
(* Persistence                                                             *)
(***************************************************************************)
FileAbsent == [kind |-> "absent"]
\* a file open() cannot read (IOError)
FileUnreadable == [kind |-> "unreadable"]
\* bytes that are not UTF-8
FileNotUtf8 == [kind |-> "not_utf8"]
\* valid JSON whose value is not an object, such as []
FileJsonList == [kind |-> "json_list"]
\* a file cut short by a write that failed after open(..., 'w') truncated it
FileTruncated == [kind |-> "invalid_json"]

\* the record _save dumps
Serialize(ps, act) ==
  [kind |-> "record",
   profiles |-> [i \in 1..Len(ps) |-> [key |-> ps[i].key, data |-> to_dict(ps[i].profile)]],
   active_profile_id |-> act]

\* outcomes of one _save: written, failed before the file was opened for
\* writing (mkdir or open raised), failed while dumping
WriteOutcomes == {"ok", "open_failed", "dump_failed"}

\* _save dumping the profiles without the active id
Save_NoActive(ps, act, w, f) ==
  CASE w = "ok" -> Serialize(ps, NoId)
    [] w = "open_failed" -> f
    [] w = "dump_failed" -> FileTruncated

\* ProfileManager._save: the file after the call; IOError is caught
Save(ps, act, w, f) ==
  CASE w = "ok" -> Serialize(ps, act)
    [] w = "open_failed" -> f
    [] w = "dump_failed" -> FileTruncated

WriteAllowed(w) == w = "ok" \/ failures < MaxWriteFailures
FailuresAfter(w) == IF w = "ok" THEN failures ELSE failures + 1

(***************************************************************************)
(* Store queries                                                           *)
(***************************************************************************)
\* the limit test with > for >=
AtCapacity_OffByOne(ps) == Len(ps) > MAX_PROFILES

\* create_profile: the limit test
AtCapacity(ps) == Len(ps) >= MAX_PROFILES

\* the loop over existing nicknames comparing without lower()
NicknameTaken_CaseSensitive(ps, nick) ==
  \E i \in 1..Len(ps) : ps[i].profile.nickname = nick

\* create_profile: the loop over existing nicknames
NicknameTaken(ps, nick) ==
  \E i \in 1..Len(ps) : Lower(ps[i].profile.nickname) = Lower(nick)

\* sorted(..., reverse=True) is stable: an element goes behind every element
\* whose key is greater or equal
\* an unstable sort: an element goes before the elements of equal key
RECURSIVE InsertDescending_Unstable(_, _)
InsertDescending_Unstable(s, e) ==
  IF s = <<>> THEN <<e>>
  ELSE IF Head(s).profile.last_played > e.profile.last_played
       THEN <<Head(s)>> \o InsertDescending_Unstable(Tail(s), e)
       ELSE <<e>> \o s

RECURSIVE InsertDescending(_, _)
InsertDescending(s, e) ==
  IF s = <<>> THEN <<e>>
  ELSE IF Head(s).profile.last_played >= e.profile.last_played
       THEN <<Head(s)>> \o InsertDescending(Tail(s), e)
       ELSE <<e>> \o s

RECURSIVE SortedByLastPlayed(_, _)
SortedByLastPlayed(ps, acc) ==
  IF ps = <<>> THEN acc
  ELSE SortedByLastPlayed(Tail(ps), InsertDescending(acc, Head(ps)))

\* get_all_profiles; each returned object is given with its dict key, which
\* stands for the identity of the object
get_all_profiles(ps) == SortedByLastPlayed(ps, <<>>)

\* get_active_profile
get_active_profile(ps, act) ==
  IF act # NoId THEN get_profile(ps, act) ELSE None

\* delete_profile without the test of the active id
ActiveAfterDelete_Kept(act, k) == act

\* delete_profile clearing the active id whatever was deleted
ActiveAfterDelete_Cleared(act, k) == NoId

\* delete_profile: the active reference after deleting key k
ActiveAfterDelete(act, k) == IF act = k THEN NoId ELSE act

(***************************************************************************)
(* The last call, kept for stating what a call returned                    *)
(***************************************************************************)
NoCall ==
  [op |-> "none", id |-> NoId, nick |-> <<>>, field |-> "", ok |-> FALSE,
   ret |-> NoId, listing |-> <<>>, exc |-> "none"]

Call(op, id, nick, field, ok, ret) ==
  [op |-> op, id |-> id, nick |-> nick, field |-> field, ok |-> ok,
   ret |-> ret, listing |-> <<>>, exc |-> "none"]

(***************************************************************************)
(* Construction: ProfileManager.__init__ and _load                         *)
(***************************************************************************)
\* fields PlayerProfile.__init__ requires, and those with a default
RequiredFields == {"id", "nickname", "created_at", "last_played"}
DefaultedFields == {"games_played"}

\* cls(**data) raises TypeError on a missing or an unexpected keyword
from_dict_raises(data) ==
  ~ (RequiredFields \subseteq DOMAIN data
     /\ DOMAIN data \subseteq RequiredFields \cup DefaultedFields)

\* PlayerProfile.from_dict on data it accepts
from_dict(data) ==
  [id |-> data.id, nickname |-> data.nickname, created_at |-> data.created_at,
   last_played |-> data.last_played,
   games_played |-> IF "games_played" \in DOMAIN data THEN data.games_played ELSE 0]

\* except (json.JSONDecodeError, IOError): the kinds of file _load recovers from
LoadRecovers(f) == f.kind \in {"unreadable", "invalid_json"}

\* ProfileManager._load: the exception that leaves __init__, "none" if none
LoadRaises(f) ==
  CASE f.kind = "absent" -> "none"
    [] LoadRecovers(f) -> "none"
    [] f.kind = "not_utf8" -> "UnicodeDecodeError"
    [] f.kind = "json_list" -> "AttributeError"
    [] f.kind = "record" ->
         IF \E i \in 1..Len(f.profiles) : from_dict_raises(f.profiles[i].data)
         THEN "TypeError" ELSE "none"

\* ProfileManager._load: _profiles after a load that raised nothing
LoadedProfiles(f) ==
  IF f.kind = "record"
  THEN [i \in 1..Len(f.profiles) |->
          [key |-> f.profiles[i].key, profile |-> from_dict(f.profiles[i].data)]]
  ELSE <<>>

\* ProfileManager._load: _active_profile_id after a load that raised nothing
LoadedActive(f) == IF f.kind = "record" THEN f.active_profile_id ELSE NoId

\* the state after ProfileManager(filepath) over file content f
Constructed(f) ==
  /\ file = f
  /\ constructed = (LoadRaises(f) = "none")
  /\ profiles = IF constructed THEN LoadedProfiles(f) ELSE <<>>
  /\ active = IF constructed THEN LoadedActive(f) ELSE NoId
  /\ now = 0
  /\ nextId = 1
  /\ updates = 0
  /\ failures = 0
  /\ shadowed = {}
  /\ last = [NoCall EXCEPT !.op = "construct", !.ok = constructed,
                          !.exc = LoadRaises(f)]

(***************************************************************************)
(* Audio Engine: Track, Playlist and construction                          *)
(* (src/core/audio_manager.py)                                             *)
(*                                                                         *)
(* Volumes are in hundredths and the gain of the stream in ten-thousandths,*)
(* so that the products the code takes are exact.  random.shuffle and      *)
(* random.randint are choices among all their results.                     *)
(***************************************************************************)
\* AudioManager.CATEGORIES
Categories == {"menu", "battle", "victory", "defeat"}

\* None where the code holds a str
NoCategory == "None"
NoName == "None"

\* the audio files a directory may hold, in the order glob yields them, with
\* what Track.from_file derives of each: the display name is the file name
\* without extension, '_' replaced by ' '; the category is the one whose
\* pattern ('Main_Menu', 'Battle') the file name contains
AudioFiles ==
  << [filename |-> "Main_Menu_1.mp3", display_name |-> "Main Menu 1", category |-> "menu"],
     [filename |-> "Main_Menu_2.mp3", display_name |-> "Main Menu 2", category |-> "menu"],
     [filename |-> "Main_Menu_3.ogg", display_name |-> "Main Menu 3", category |-> "menu"],
     [filename |-> "Battle_1.mp3", display_name |-> "Battle 1", category |-> "battle"] >>

FileNames == {AudioFiles[i].filename : i \in 1..Len(AudioFiles)}

\* Track.from_file
from_file(f, category) ==
  [filename |-> f.filename, display_name |-> f.display_name,
   category |-> category, enabled |-> TRUE]

\* Playlist(name=category, tracks=tracks)
Playlist(name, tracks) ==
  [name |-> name, tracks |-> tracks, current_index |-> 0, shuffle |-> FALSE,
   repeat |-> TRUE, shuffled_order |-> <<>>]

\* _scan_audio_files: the tracks of one category, files that exist only
ScannedTracks(dir, category) ==
  LET found == SelectSeq(AudioFiles,
                 LAMBDA f : /\ f.filename \in DOMAIN dir
                            /\ dir[f.filename] # "missing"
                            /\ f.category = category)
  IN [i \in 1..Len(found) |-> from_file(found[i], category)]

\* _scan_audio_files: a playlist for each category that has a track
scan_audio_files(dir) ==
  [c \in {c \in Categories : ScannedTracks(dir, c) # <<>>} |->
     Playlist(c, ScannedTracks(dir, c))]

\* the first track of remaining named filename, 0 if there is none
FirstNamed(remaining, filename) ==
  IF \E i \in 1..Len(remaining) : remaining[i].filename = filename
  THEN CHOOSE i \in 1..Len(remaining) :
         /\ remaining[i].filename = filename
         /\ \A j \in 1..(i - 1) : remaining[j].filename # filename
  ELSE 0

RemoveAt(seq, i) == [j \in 1..(Len(seq) - 1) |-> IF j < i THEN seq[j] ELSE seq[j + 1]]

\* the loop without the tracks that remain
RECURSIVE Reordered_DropsRest(_, _, _)
Reordered_DropsRest(ordered, remaining, new_order) ==
  IF new_order = <<>> THEN ordered
  ELSE LET i == FirstNamed(remaining, Head(new_order)) IN
       IF i = 0 THEN Reordered_DropsRest(ordered, remaining, Tail(new_order))
       ELSE Reordered_DropsRest(Append(ordered, remaining[i]), RemoveAt(remaining, i),
                                Tail(new_order))

\* the loop of reorder_tracks and _load_playlist_settings: the tracks named
\* in new_order, in that order, each taken once; then those that remain
RECURSIVE Reordered(_, _, _)
Reordered(ordered, remaining, new_order) ==
  IF new_order = <<>> THEN ordered \o remaining
  ELSE LET i == FirstNamed(remaining, Head(new_order)) IN
       IF i = 0 THEN Reordered(ordered, remaining, Tail(new_order))
       ELSE Reordered(Append(ordered, remaining[i]), RemoveAt(remaining, i),
                      Tail(new_order))

InSeq(x, seq) == \E i \in 1..Len(seq) : seq[i] = x

\* _load_playlist_settings: the enabled flags; an empty list restores nothing
RestoreEnabled(tracks, enabled_tracks) ==
  IF enabled_tracks # <<>>
  THEN [i \in 1..Len(tracks) |->
          [tracks[i] EXCEPT !.enabled = InSeq(tracks[i].filename, enabled_tracks)]]
  ELSE tracks

\* _load_playlist_settings: the order; an empty list restores nothing
RestoreOrder(tracks, track_order) ==
  IF track_order # <<>> THEN Reordered(<<>>, tracks, track_order) ELSE tracks

\* settings.get("playlist_config", {})
PlaylistConfig(st) ==
  IF st.playlist_config = None THEN [c \in {} |-> None] ELSE st.playlist_config

\* _load_playlist_settings
load_playlist_settings(pls, st) ==
  IF st = None THEN pls
  ELSE LET playlist_config == PlaylistConfig(st) IN
       [c \in DOMAIN pls |->
          IF c \in DOMAIN playlist_config
          THEN LET config == playlist_config[c] IN
               [pls[c] EXCEPT
                  !.tracks = RestoreOrder(RestoreEnabled(@, config.enabled_tracks),
                                          config.track_order),
                  !.shuffle = config.shuffle,
                  !.repeat = config.repeat]
          ELSE pls[c]]

\* the record of a call on the engine or on one of its playlists: what was
\* called, the name or the track it returned, the exception that left it,
\* the callbacks invoked with their argument, the file handed to
\* pygame.mixer.music.play, the number of next_track calls made in a row
\* on one playlist since its cursor was 0, and the callback handed to the
\* call
NoAudioCall ==
  [op |-> "none", category |-> NoCategory, force |-> FALSE, ret |-> NoName,
   track |-> None, exc |-> "none", notified |-> <<>>, played |-> NoName,
   streak |-> 0, callback |-> NoName]

ACall(op, category, ret) ==
  [NoAudioCall EXCEPT !.op = op, !.category = category, !.ret = ret]

\* pygame.mixer.music before any load: nothing plays, the gain is 1.0
MixerIdle == [state |-> "idle", volume |-> 10000]
\* the mixer that could not be opened
MixerClosed == [state |-> "closed", volume |-> 0]

\* AudioManager.__init__: _playlists; nothing is scanned without the backend
InitialPlaylists(avail, dir, st) ==
  IF avail THEN load_playlist_settings(scan_audio_files(dir), st)
  ELSE [c \in {} |-> None]

\* AudioManager.__init__(assets_path, settings) in a process whose
\* AUDIO_AVAILABLE is avail, over the directory dir
AudioManager(avail, dir, st) ==
  /\ audio_available = avail
  /\ files = dir
  /\ settings = st
  /\ master_volume = 70
  /\ music_volume = 70
  /\ effects_volume = 80
  /\ current_category = NoCategory
  /\ current_track = None
  /\ is_playing = FALSE
  /\ is_paused = FALSE
  /\ playlists = InitialPlaylists(avail, dir, st)
  /\ on_track_change = <<>>
  /\ mixer = IF avail THEN MixerIdle ELSE MixerClosed
  /\ alast = ACall("construct", NoCategory, NoName)

\* an audio directory without files
EmptyDir == [f \in {} |-> "ok"]

\* the engine beside which the sessions of the Profile Store run
EngineOff == AudioManager(FALSE, EmptyDir, None)

\* the store beside which the sessions of the Audio Engine run
StoreIdle == Constructed(FileAbsent)

\* a ProfileManager constructed where no file exists yet
Init == Constructed(FileAbsent) /\ EngineOff

(***************************************************************************)
(* Operations                                                              *)
(***************************************************************************)
\* the wall clock advances between calls
Tick ==
  /\ constructed
  /\ now < MaxTime
  /\ now' = now + 1
  /\ UNCHANGED <<profiles, active, file, nextId, updates, failures, constructed,
               shadowed, last>>
  /\ UNCHANGED audioVars

\* profile.to_dict() in _save raises TypeError when an instance attribute
\* hides the method; the comprehension is evaluated before the file is opened
SaveRaises(ps, sh) == \E i \in 1..Len(ps) : ps[i].key \in sh

\* the end of a handler that changed the store: self._save() and the return.
\* w = "open_failed" includes a failing mkdir, which comes before the
\* comprehension; the IOError is caught and nothing is raised
SaveAndReturn(ps, act, sh, w, call) ==
  LET raises == SaveRaises(ps, sh) /\ w = "ok" IN
  /\ WriteAllowed(w)
  /\ SaveRaises(ps, sh) => w # "dump_failed"
  /\ file' = IF SaveRaises(ps, sh) THEN file ELSE Save(ps, act, w, file)
  /\ failures' = FailuresAfter(w)
  /\ last' = IF raises THEN [call EXCEPT !.ok = FALSE, !.ret = NoId,
                                         !.exc = "TypeError"]
             ELSE call

\* ProfileManager.create_profile(nickname); w is the outcome of its _save
CreateProfile(n, w) ==
  LET nickname == Strip(n) IN
  /\ constructed
  /\ UNCHANGED <<constructed, shadowed>>
  /\ UNCHANGED audioVars
  /\ IF AtCapacity(profiles) \/ nickname = <<>> \/ NicknameTaken(profiles, nickname)
     THEN /\ w = "ok"
          /\ last' = Call("create_profile", NoId, n, "", FALSE, NoId)
          /\ UNCHANGED <<profiles, active, file, now, nextId, updates, failures>>
     ELSE LET profile == create_new(nextId, nickname, now) IN
          /\ nextId <= MaxIds
          /\ profiles' = DictSet(profiles, profile.id, profile)
          /\ nextId' = nextId + 1
          /\ SaveAndReturn(profiles', active, shadowed, w,
                           Call("create_profile", NoId, n, "", TRUE, profile.id))
          /\ UNCHANGED <<active, now, updates>>

\* ProfileManager.delete_profile(profile_id)
DeleteProfile(k, w) ==
  /\ constructed
  /\ UNCHANGED constructed
  /\ UNCHANGED audioVars
  /\ IF k \in Keys(profiles)
     THEN /\ profiles' = DictDelete(profiles, k)
          /\ active' = ActiveAfterDelete(active, k)
          /\ shadowed' = shadowed \ {k}
          /\ SaveAndReturn(profiles', active', shadowed', w,
                           Call("delete_profile", k, <<>>, "", TRUE, NoId))
          /\ UNCHANGED <<now, nextId, updates>>
     ELSE /\ w = "ok"
          /\ last' = Call("delete_profile", k, <<>>, "", FALSE, NoId)
          /\ UNCHANGED <<profiles, active, file, now, nextId, updates, failures,
                         shadowed>>

\* set_active_profile assigning the id before testing it
ActiveAfterSet_Unchecked(ps, act, k) == k

\* set_active_profile: the active reference after the call
ActiveAfterSet(ps, act, k) == IF k \in Keys(ps) THEN k ELSE act

\* ProfileManager.set_active_profile(profile_id)
SetActiveProfile(k, w) ==
  /\ constructed
  /\ UNCHANGED <<constructed, shadowed>>
  /\ UNCHANGED audioVars
  /\ active' = ActiveAfterSet(profiles, active, k)
  /\ IF k \in Keys(profiles)
     THEN /\ profiles' = DictSet(profiles, k,
                                 update_last_played(get_profile(profiles, k), now))
          /\ SaveAndReturn(profiles', active', shadowed, w,
                           Call("set_active_profile", k, <<>>, "", TRUE, NoId))
          /\ UNCHANGED <<now, nextId, updates>>
     ELSE /\ w = "ok"
          /\ last' = Call("set_active_profile", k, <<>>, "", FALSE, NoId)
          /\ UNCHANGED <<profiles, file, now, nextId, updates, failures>>

\* the dataclass fields of PlayerProfile
SchemaFields == {"id", "nickname", "created_at", "last_played", "games_played"}
\* the property of PlayerProfile, which has no setter
Properties == {"win_rate"}
\* the methods of PlayerProfile that _save calls on the instance
Methods == {"to_dict"}

\* hasattr(profile, key): true of fields, properties and methods alike
hasattr(key) == key \in SchemaFields \cup Properties \cup Methods

\* setattr(profile, key, value) raises AttributeError on a property that has
\* no setter
SetattrRaises(key) == hasattr(key) /\ key \in Properties

\* update_profile: the loop body for one keyword argument; hasattr is false
\* of a name that is no attribute of the profile
SetField(p, key, value) ==
  CASE key = "id" -> [p EXCEPT !.id = value]
    [] key = "nickname" -> [p EXCEPT !.nickname = value]
    [] key = "created_at" -> [p EXCEPT !.created_at = value]
    [] key = "last_played" -> [p EXCEPT !.last_played = value]
    [] key = "games_played" -> [p EXCEPT !.games_played = value]
    [] OTHER -> p

\* ProfileManager.update_profile(profile_id, key=value)
UpdateProfile(k, key, value, w) ==
  /\ constructed
  /\ UNCHANGED constructed
  /\ UNCHANGED audioVars
  /\ updates < MaxUpdates
  /\ updates' = updates + 1
  /\ IF k \in Keys(profiles)
     THEN IF SetattrRaises(key)
          THEN /\ w = "ok"
               /\ last' = [Call("update_profile", k, <<>>, key, FALSE, NoId)
                             EXCEPT !.exc = "AttributeError"]
               /\ UNCHANGED <<profiles, active, file, now, nextId, failures,
                              shadowed>>
          ELSE /\ profiles' = DictSet(profiles, k,
                                      SetField(get_profile(profiles, k), key, value))
               /\ shadowed' = IF hasattr(key) /\ key \in Methods
                              THEN shadowed \cup {k} ELSE shadowed
               /\ SaveAndReturn(profiles', active, shadowed', w,
                                Call("update_profile", k, <<>>, key, TRUE, NoId))
               /\ UNCHANGED <<active, now, nextId>>
     ELSE /\ w = "ok"
          /\ last' = Call("update_profile", k, <<>>, key, FALSE, NoId)
          /\ UNCHANGED <<profiles, active, file, now, nextId, failures, shadowed>>

\* ProfileManager.get_all_profiles()
GetAllProfiles ==
  /\ constructed
  /\ last' = [NoCall EXCEPT !.op = "get_all_profiles", !.ok = TRUE,
                            !.listing = get_all_profiles(profiles)]
  /\ UNCHANGED <<profiles, active, file, now, nextId, updates, failures, constructed,
               shadowed>>
  /\ UNCHANGED audioVars

\* ids handed to the operations: the keys of the store and the first id that
\* is no key of it (an id of a deleted profile, or else one never drawn)
UnknownId ==
  CHOOSE k \in 1..nextId :
    k \notin Keys(profiles) /\ \A j \in 1..(k - 1) : j \in Keys(profiles)
IdInputs == Keys(profiles) \cup {UnknownId}

\* timestamps handed to update_profile(last_played=...): one in the future
TimeInputs == {MaxTime + 1}

\* the calls of a session whose writes all succeed, made within one reading
\* of the clock
Next ==
  \/ \E n \in NicknameInputs : CreateProfile(n, "ok")
  \/ \E k \in IdInputs : DeleteProfile(k, "ok")
  \/ \E k \in IdInputs : SetActiveProfile(k, "ok")
  \/ \E k \in IdInputs, n \in NicknameUpdates : UpdateProfile(k, "nickname", n, "ok")
  \/ \E k \in IdInputs, t \in TimeInputs : UpdateProfile(k, "last_played", t, "ok")
  \/ \E k \in IdInputs : UpdateProfile(k, "games_played", 1, "ok")
  \/ GetAllProfiles

Spec == Init /\ [][Next]_vars

(***************************************************************************)
(* A session during which the clock advances                               *)
(***************************************************************************)
NextTime ==
  \/ Tick
  \/ \E n \in NicknameInputs : CreateProfile(n, "ok")
  \/ \E k \in IdInputs : DeleteProfile(k, "ok")
  \/ \E k \in IdInputs : SetActiveProfile(k, "ok")
  \/ GetAllProfiles

SpecTime == Init /\ [][NextTime]_vars

(***************************************************************************)
(* A session in which writes may fail                                      *)
(***************************************************************************)
\* nicknames handed to create_profile in such a session
IONicknames == { <<" ", "a", " ">>, <<"b">> }

NextIO ==
  \/ \E n \in IONicknames, w \in WriteOutcomes : CreateProfile(n, w)
  \/ \E k \in IdInputs, w \in WriteOutcomes : DeleteProfile(k, w)
  \/ \E k \in IdInputs, w \in WriteOutcomes : SetActiveProfile(k, w)
  \/ \E k \in IdInputs, w \in WriteOutcomes : UpdateProfile(k, "games_played", 1, w)

SpecIO == Init /\ [][NextIO]_vars

(***************************************************************************)
(* Construction over a file that exists                                    *)
(***************************************************************************)
\* ids of profiles written by an earlier run of the program
StoredIds == <<11, 12, 13, 14>>
StoredNicknames == << <<"d">>, <<"e">>, <<"f">>, <<"g">> >>

\* what _save wrote after create_profile was called for each of StoredNicknames
StoredProfiles(n) ==
  [i \in 1..n |-> [key |-> StoredIds[i],
                   profile |-> create_new(StoredIds[i], StoredNicknames[i], 0)]]

\* a profile entry that lacks a field, and one with a field too many
EntryMissingField == [key |-> 11, data |-> [id |-> 11, nickname |-> <<"d">>]]
EntryExtraField ==
  [key |-> 11,
   data |-> [id |-> 11, nickname |-> <<"d">>, created_at |-> 0,
             last_played |-> 0, games_played |-> 0, elo |-> 0]]

FileContents ==
  { FileAbsent, FileUnreadable, FileTruncated, FileNotUtf8, FileJsonList,
    Serialize(StoredProfiles(4), NoId),
    Serialize(StoredProfiles(1), 11),
    [kind |-> "record", profiles |-> <<EntryMissingField>>, active_profile_id |-> NoId],
    [kind |-> "record", profiles |-> <<EntryExtraField>>, active_profile_id |-> NoId] }

InitLoad == (\E f \in FileContents : Constructed(f)) /\ EngineOff

\* nicknames handed to create_profile once the stored profiles are loaded:
\* blank, two new ones, and one that differs from a stored one by case
LoadNicknames == { <<" ">>, <<"A">>, <<"b">>, <<"D">> }

NextLoad ==
  \/ \E n \in LoadNicknames : CreateProfile(n, "ok")
  \/ \E k \in IdInputs : DeleteProfile(k, "ok")
  \/ \E k \in IdInputs : SetActiveProfile(k, "ok")
  \/ \E k \in {StoredIds[1], UnknownId} : UpdateProfile(k, "games_played", 1, "ok")

SpecLoad == InitLoad /\ [][NextLoad]_vars

(***************************************************************************)
(* A session that calls update_profile with every kind of keyword          *)
(***************************************************************************)
\* keyword names handed to update_profile: two fields, a name that is no
\* attribute, the property and a method
FieldNames == {"id", "games_played", "elo", "win_rate", "to_dict"}

\* the id handed to update_profile(id=...)
OtherId == 21

\* the value handed with each keyword
FieldValue(key) == IF key = "id" THEN OtherId ELSE 1

NextUpdate ==
  \/ \E n \in IONicknames : CreateProfile(n, "ok")
  \/ \E k \in IdInputs : DeleteProfile(k, "ok")
  \/ \E k \in IdInputs : SetActiveProfile(k, "ok")
  \/ \E k \in IdInputs, key \in FieldNames :
       UpdateProfile(k, key, FieldValue(key), "ok")

SpecUpdate == Init /\ [][NextUpdate]_vars

(***************************************************************************)
(* Playlist                                                                *)
(***************************************************************************)
\* last value of current_index for which next_track is still called
MaxCursor == 3
\* longest run of next_track calls that is counted
MaxStreak == 4

\* get_enabled_tracks that does not look at the enabled flags
get_enabled_tracks_All(pl) == pl.tracks

\* Playlist.get_enabled_tracks
get_enabled_tracks(pl) == SelectSeq(pl.tracks, LAMBDA t : t.enabled)

\* Playlist.get_current_track; Python lists are indexed from 0
get_current_track(pl) ==
  LET enabled == get_enabled_tracks(pl) IN
  IF enabled = <<>> THEN None
  ELSE IF pl.shuffle /\ pl.shuffled_order # <<>>
       THEN LET idx == pl.shuffled_order[(pl.current_index % Len(pl.shuffled_order)) + 1]
            IN IF idx < Len(enabled) THEN enabled[idx + 1] ELSE enabled[1]
       ELSE enabled[(pl.current_index % Len(enabled)) + 1]

\* the results of random.shuffle(list(range(n)))
ShuffleResults(n) ==
  {p \in [1..n -> 0..(n - 1)] : \A i, j \in 1..n : i # j => p[i] # p[j]}

\* the permutations _reshuffle may draw for playlist pl
Shuffles(pl) == ShuffleResults(Len(get_enabled_tracks(pl)))

\* Playlist._reshuffle, perm being what random.shuffle left
reshuffle(pl, perm) ==
  IF get_enabled_tracks(pl) # <<>> THEN [pl EXCEPT !.shuffled_order = perm] ELSE pl

\* next_track wrapping one call late
next_track_WrapsLate(pl, perm) ==
  LET enabled == get_enabled_tracks(pl)
      moved == [pl EXCEPT !.current_index = @ + 1]
      wrapped == [moved EXCEPT !.current_index = 0]
      again == IF pl.shuffle THEN reshuffle(wrapped, perm) ELSE wrapped
  IN IF enabled = <<>> THEN [playlist |-> pl, track |-> None]
     ELSE IF moved.current_index > Len(enabled)
          THEN IF pl.repeat
               THEN [playlist |-> again, track |-> get_current_track(again)]
               ELSE [playlist |-> moved, track |-> None]
          ELSE [playlist |-> moved, track |-> get_current_track(moved)]

\* Playlist.next_track: the playlist after the call and the track returned
next_track(pl, perm) ==
  LET enabled == get_enabled_tracks(pl)
      moved == [pl EXCEPT !.current_index = @ + 1]
      wrapped == [moved EXCEPT !.current_index = 0]
      again == IF pl.shuffle THEN reshuffle(wrapped, perm) ELSE wrapped
  IN IF enabled = <<>> THEN [playlist |-> pl, track |-> None]
     ELSE IF moved.current_index >= Len(enabled)
          THEN IF pl.repeat
               THEN [playlist |-> again, track |-> get_current_track(again)]
               ELSE [playlist |-> moved, track |-> None]
          ELSE [playlist |-> moved, track |-> get_current_track(moved)]

\* Playlist.previous_track
previous_track(pl) ==
  LET enabled == get_enabled_tracks(pl)
      moved == [pl EXCEPT !.current_index =
                  IF @ - 1 < 0 THEN Len(enabled) - 1 ELSE @ - 1]
  IN IF enabled = <<>> THEN [playlist |-> pl, track |-> None]
     ELSE [playlist |-> moved, track |-> get_current_track(moved)]

\* Playlist.set_shuffle
set_shuffle(pl, enabled, perm) ==
  IF enabled THEN reshuffle([pl EXCEPT !.shuffle = TRUE], perm)
  ELSE [pl EXCEPT !.shuffle = FALSE]

(***************************************************************************)
(* Audio Engine: playback                                                  *)
(***************************************************************************)
volumeVars == <<master_volume, music_volume, effects_volume>>
playbackVars == <<current_category, current_track, is_playing, is_paused>>

\* the engine is called until cleanup has closed the mixer
Alive == ~ audio_available \/ mixer.state # "closed"

\* what of a Track never changes; stands for the Track object
TrackId(t) ==
  [filename |-> t.filename, display_name |-> t.display_name, category |-> t.category]

\* pygame.mixer.music.get_busy(): false of a stream that is paused or ended
get_busy == mixer.state = "playing"

\* the callbacks that raise an Exception when they are called
RaisingCallbacks == {"on_track_change_raising"}

\* _notify_track_change: the loop calls each entry of the list with the
\* track, in the order of the list; what a callback raises is caught inside
\* the loop, which goes on with the next entry
notify_track_change(track) ==
  [i \in 1..Len(on_track_change) |->
     [callback |-> on_track_change[i], track |-> TrackId(track),
      raised |-> on_track_change[i] \in RaisingCallbacks]]

\* AudioManager._play_track; call is the record of the handler that plays.
\* fadeout blocks until the stream has ended; load raises on a file the
\* mixer cannot decode, and the exception is caught
PlayTrack(track, category, call) ==
  LET status == files[track.filename]
      fades == is_playing /\ get_busy
  IN IF ~ audio_available \/ status = "missing"
     THEN /\ alast' = call
          /\ UNCHANGED <<playbackVars, mixer>>
     ELSE IF status = "corrupt"
     THEN /\ mixer' = IF fades THEN [mixer EXCEPT !.state = "idle"] ELSE mixer
          /\ alast' = call
          /\ UNCHANGED playbackVars
     ELSE /\ mixer' = [state |-> "playing", volume |-> master_volume * music_volume]
          /\ current_category' = category
          /\ current_track' = TrackId(track)
          /\ is_playing' = TRUE
          /\ is_paused' = FALSE
          /\ alast' = [call EXCEPT !.ret = track.display_name,
                                    !.notified = notify_track_change(track),
                                    !.played = track.filename]

\* the results of random.randint(0, len(enabled) - 1) in _start_playlist
RandintResults(category) ==
  IF category \in DOMAIN playlists
     /\ playlists[category].shuffle
     /\ get_enabled_tracks(playlists[category]) # <<>>
  THEN 0..(Len(get_enabled_tracks(playlists[category])) - 1)
  ELSE {0}

\* AudioManager._start_playlist; r is what random.randint yields
StartPlaylist(category, r, call) ==
  IF category \notin DOMAIN playlists
  THEN /\ alast' = call
       /\ UNCHANGED <<playlists, playbackVars, mixer>>
  ELSE LET playlist == playlists[category]
           picked == IF playlist.shuffle /\ get_enabled_tracks(playlist) # <<>>
                     THEN [playlist EXCEPT !.current_index = r]
                     ELSE playlist
           track == get_current_track(picked)
       IN /\ playlists' = [playlists EXCEPT ![category] = picked]
          /\ IF track = None
             THEN /\ alast' = call
                  /\ UNCHANGED <<playbackVars, mixer>>
             ELSE PlayTrack(track, category, call)

\* request_music without the test of force_restart
SameCategoryPlaying_ForceIgnored(category, force_restart) ==
  current_category = category /\ is_playing /\ get_busy

\* request_music: the test that makes the call change nothing
SameCategoryPlaying(category, force_restart) ==
  current_category = category /\ is_playing /\ ~ force_restart /\ get_busy

\* AudioManager.request_music(category, force_restart)
RequestMusic(category, force_restart, r) ==
  LET call == [ACall("request_music", category, NoName) EXCEPT
                 !.force = force_restart]
  IN /\ Alive
     /\ r \in RandintResults(category)
     /\ UNCHANGED <<storeVars, audio_available, files, settings, volumeVars,
                    on_track_change>>
     /\ IF ~ audio_available \/ SameCategoryPlaying(category, force_restart)
        THEN /\ alast' = call
             /\ UNCHANGED <<playlists, playbackVars, mixer>>
        ELSE StartPlaylist(category, r, call)

\* the permutations random.shuffle may leave in a next_track call on
\* playlist pl: it is called when the cursor wraps with shuffle on
NextShuffles(pl) ==
  IF /\ get_enabled_tracks(pl) # <<>>
     /\ pl.current_index + 1 >= Len(get_enabled_tracks(pl))
     /\ pl.repeat /\ pl.shuffle
  THEN Shuffles(pl) ELSE {<<>>}

\* the cursor of a playlist that does not repeat grows with every call
NextAllowed(pl) == pl.repeat \/ pl.current_index < MaxCursor

\* AudioManager.play_next()
PlayNext(perm) ==
  LET call == ACall("play_next", current_category, NoName) IN
  /\ Alive
  /\ UNCHANGED <<storeVars, audio_available, files, settings, volumeVars,
                 on_track_change>>
  /\ IF current_category = NoCategory \/ current_category \notin DOMAIN playlists
     THEN /\ perm = <<>>
          /\ alast' = call
          /\ UNCHANGED <<playlists, playbackVars, mixer>>
     ELSE LET next == next_track(playlists[current_category], perm) IN
          /\ perm \in NextShuffles(playlists[current_category])
          /\ NextAllowed(playlists[current_category])
          /\ playlists' = [playlists EXCEPT ![current_category] = next.playlist]
          /\ IF next.track # None
             THEN PlayTrack(next.track, current_category, call)
             ELSE /\ alast' = call
                  /\ UNCHANGED <<playbackVars, mixer>>

\* AudioManager.play_previous()
PlayPrevious ==
  LET call == ACall("play_previous", current_category, NoName) IN
  /\ Alive
  /\ UNCHANGED <<storeVars, audio_available, files, settings, volumeVars,
                 on_track_change>>
  /\ IF current_category = NoCategory \/ current_category \notin DOMAIN playlists
     THEN /\ alast' = call
          /\ UNCHANGED <<playlists, playbackVars, mixer>>
     ELSE LET previous == previous_track(playlists[current_category]) IN
          /\ playlists' = [playlists EXCEPT ![current_category] = previous.playlist]
          /\ IF previous.track # None
             THEN PlayTrack(previous.track, current_category, call)
             ELSE /\ alast' = call
                  /\ UNCHANGED <<playbackVars, mixer>>

\* stop_music that keeps the current track and category
StopMusic_KeepsTrack ==
  /\ Alive
  /\ alast' = ACall("stop_music", NoCategory, NoName)
  /\ UNCHANGED <<storeVars, audio_available, files, settings, volumeVars,
                 on_track_change, playlists>>
  /\ IF audio_available /\ is_playing
     THEN /\ mixer' = [mixer EXCEPT !.state = "idle"]
          /\ is_playing' = FALSE
          /\ is_paused' = FALSE
          /\ UNCHANGED <<current_track, current_category>>
     ELSE UNCHANGED <<playbackVars, mixer>>

\* AudioManager.stop_music()
StopMusic ==
  /\ Alive
  /\ alast' = ACall("stop_music", NoCategory, NoName)
  /\ UNCHANGED <<storeVars, audio_available, files, settings, volumeVars,
                 on_track_change, playlists>>
  /\ IF audio_available /\ is_playing
     THEN /\ mixer' = [mixer EXCEPT !.state = "idle"]
          /\ is_playing' = FALSE
          /\ is_paused' = FALSE
          /\ current_track' = None
          /\ current_category' = NoCategory
     ELSE UNCHANGED <<playbackVars, mixer>>

\* pygame.mixer.music.pause() and unpause()
MixerPaused(m) == IF m.state = "playing" THEN [m EXCEPT !.state = "paused"] ELSE m
MixerUnpaused(m) == IF m.state = "paused" THEN [m EXCEPT !.state = "playing"] ELSE m

\* pause_music that does not ask whether music plays
PauseMusic_WhenStopped ==
  /\ Alive
  /\ alast' = ACall("pause_music", NoCategory, NoName)
  /\ UNCHANGED <<storeVars, audio_available, files, settings, volumeVars,
                 on_track_change, playlists, current_category, current_track,
                 is_playing>>
  /\ IF audio_available /\ ~ is_paused
     THEN /\ mixer' = MixerPaused(mixer)
          /\ is_paused' = TRUE
     ELSE UNCHANGED <<is_paused, mixer>>

\* AudioManager.pause_music()
PauseMusic ==
  /\ Alive
  /\ alast' = ACall("pause_music", NoCategory, NoName)
  /\ UNCHANGED <<storeVars, audio_available, files, settings, volumeVars,
                 on_track_change, playlists, current_category, current_track,
                 is_playing>>
  /\ IF audio_available /\ is_playing /\ ~ is_paused
     THEN /\ mixer' = MixerPaused(mixer)
          /\ is_paused' = TRUE
     ELSE UNCHANGED <<is_paused, mixer>>

\* AudioManager.resume_music()
ResumeMusic ==
  /\ Alive
  /\ alast' = ACall("resume_music", NoCategory, NoName)
  /\ UNCHANGED <<storeVars, audio_available, files, settings, volumeVars,
                 on_track_change, playlists, current_category, current_track,
                 is_playing>>
  /\ IF audio_available /\ is_paused
     THEN /\ mixer' = MixerUnpaused(mixer)
          /\ is_paused' = FALSE
     ELSE UNCHANGED <<is_paused, mixer>>

\* AudioManager.toggle_pause()
TogglePause ==
  /\ Alive
  /\ alast' = ACall("toggle_pause", NoCategory, NoName)
  /\ UNCHANGED <<storeVars, audio_available, files, settings, volumeVars,
                 on_track_change, playlists, current_category, current_track,
                 is_playing>>
  /\ IF is_paused
     THEN IF audio_available /\ is_paused
          THEN /\ mixer' = MixerUnpaused(mixer)
               /\ is_paused' = FALSE
          ELSE UNCHANGED <<is_paused, mixer>>
     ELSE IF audio_available /\ is_playing /\ ~ is_paused
          THEN /\ mixer' = MixerPaused(mixer)
               /\ is_paused' = TRUE
          ELSE UNCHANGED <<is_paused, mixer>>

\* most callbacks registered in a session of playback
MaxCallbacks == 1
\* most callbacks registered in a session of notification
MaxObservers == 2

\* AudioManager.register_track_change_callback(callback): appended, whether
\* the list holds it already or not
register_track_change_callback(callback) ==
  /\ Alive
  /\ on_track_change' = Append(on_track_change, callback)
  /\ alast' = [ACall("register_track_change_callback", NoCategory, NoName)
                 EXCEPT !.callback = callback]
  /\ UNCHANGED <<storeVars, audio_available, files, settings, volumeVars,
                 playlists, playbackVars, mixer>>

\* register_track_change_callback(callback) in a session of playback
RegisterCallback(callback) ==
  /\ Len(on_track_change) < MaxCallbacks
  /\ register_track_change_callback(callback)

\* list.remove(callback): the first entry equal to callback is taken out
ListRemove(seq, x) ==
  LET i == CHOOSE k \in 1..Len(seq) :
             seq[k] = x /\ \A j \in 1..(k - 1) : seq[j] # x
  IN RemoveAt(seq, i)

\* AudioManager.unregister_track_change_callback(callback)
UnregisterCallback(callback) ==
  /\ Alive
  /\ on_track_change' = IF InSeq(callback, on_track_change)
                        THEN ListRemove(on_track_change, callback)
                        ELSE on_track_change
  /\ alast' = [ACall("unregister_track_change_callback", NoCategory, NoName)
                 EXCEPT !.callback = callback]
  /\ UNCHANGED <<storeVars, audio_available, files, settings, volumeVars,
                 playlists, playbackVars, mixer>>

\* a file of the audio directory is removed while the program runs
RemoveFile(f) ==
  /\ f \in DOMAIN files
  /\ files[f] = "ok"
  /\ files' = [files EXCEPT ![f] = "missing"]
  /\ UNCHANGED <<storeVars, audio_available, settings, volumeVars, playlists,
                 playbackVars, on_track_change, mixer, alast>>

\* a file is put into the audio directory while the program runs; the
\* playlists have been scanned and do not see it before the next start
AddFile(f) ==
  /\ f \in DOMAIN files
  /\ files[f] = "missing"
  /\ files' = [files EXCEPT ![f] = "ok"]
  /\ UNCHANGED <<storeVars, audio_available, settings, volumeVars, playlists,
                 playbackVars, on_track_change, mixer, alast>>

(***************************************************************************)
(* Audio Engine: calls on a playlist obtained with get_playlist            *)
(***************************************************************************)
\* the count of next_track calls made in a row on one playlist, begun by a
\* call made with the cursor at 0
Streak(category) ==
  IF /\ alast.op = "next_track" /\ alast.category = category
     /\ alast.streak \in 1..(MaxStreak - 1)
  THEN alast.streak + 1
  ELSE IF playlists[category].current_index = 0 THEN 1 ELSE 0

\* get_playlist(category).next_track()
NextTrack(category, perm) ==
  /\ Alive
  /\ category \in DOMAIN playlists
  /\ perm \in NextShuffles(playlists[category])
  /\ NextAllowed(playlists[category])
  /\ LET next == next_track(playlists[category], perm) IN
     /\ playlists' = [playlists EXCEPT ![category] = next.playlist]
     /\ alast' = [ACall("next_track", category, NoName) EXCEPT
                    !.track = IF next.track = None THEN None ELSE TrackId(next.track),
                    !.streak = Streak(category)]
  /\ UNCHANGED <<storeVars, audio_available, files, settings, volumeVars,
                 playbackVars, on_track_change, mixer>>

\* get_playlist(category).previous_track()
PreviousTrack(category) ==
  /\ Alive
  /\ category \in DOMAIN playlists
  /\ LET previous == previous_track(playlists[category]) IN
     /\ playlists' = [playlists EXCEPT ![category] = previous.playlist]
     /\ alast' = [ACall("previous_track", category, NoName) EXCEPT
                    !.track = IF previous.track = None THEN None
                              ELSE TrackId(previous.track)]
  /\ UNCHANGED <<storeVars, audio_available, files, settings, volumeVars,
                 playbackVars, on_track_change, mixer>>

(***************************************************************************)
(* Audio Engine: playlist configuration and its persistence                *)
(***************************************************************************)
Filenames(tracks) == [i \in 1..Len(tracks) |-> tracks[i].filename]

\* save_playlist_settings: the value stored under playlist_config
Serialized(pls) ==
  [c \in DOMAIN pls |->
     [enabled_tracks |-> Filenames(get_enabled_tracks(pls[c])),
      track_order |-> Filenames(pls[c].tracks),
      shuffle |-> pls[c].shuffle,
      repeat |-> pls[c].repeat]]

\* save_playlist_settings: the settings store after the call; settings.set
\* keeps the value and writes the file
save_playlist_settings(pls, st) ==
  IF st = None THEN st ELSE [st EXCEPT !.playlist_config = Serialized(pls)]

\* AudioManager.save_playlist_settings()
SavePlaylistSettings ==
  /\ Alive
  /\ settings' = save_playlist_settings(playlists, settings)
  /\ alast' = ACall("save_playlist_settings", NoCategory, NoName)
  /\ UNCHANGED <<storeVars, audio_available, files, volumeVars, playlists,
                 playbackVars, on_track_change, mixer>>

\* a handler that configures a playlist and saves before it changes it
Configured_SavesFirst(category, pl, call) ==
  /\ Alive
  /\ alast' = call
  /\ IF category \in DOMAIN playlists
     THEN /\ playlists' = [playlists EXCEPT ![category] = pl]
          /\ settings' = save_playlist_settings(playlists, settings)
     ELSE UNCHANGED <<playlists, settings>>
  /\ UNCHANGED <<storeVars, audio_available, files, volumeVars, playbackVars,
                 on_track_change, mixer>>

\* the end of a handler that configures a playlist: the playlists are kept
\* and saved when the category has one
Configured(category, pl, call) ==
  /\ Alive
  /\ alast' = call
  /\ IF category \in DOMAIN playlists
     THEN /\ playlists' = [playlists EXCEPT ![category] = pl]
          /\ settings' = save_playlist_settings(playlists', settings)
     ELSE UNCHANGED <<playlists, settings>>
  /\ UNCHANGED <<storeVars, audio_available, files, volumeVars, playbackVars,
                 on_track_change, mixer>>

\* set_track_enabled: the first track named filename gets the flag
WithEnabled(tracks, filename, enabled) ==
  LET i == FirstNamed(tracks, filename) IN
  IF i = 0 THEN tracks ELSE [tracks EXCEPT ![i].enabled = enabled]

\* AudioManager.set_track_enabled(category, filename, enabled)
SetTrackEnabled(category, filename, enabled) ==
  Configured(category,
             IF category \in DOMAIN playlists
             THEN [playlists[category] EXCEPT
                     !.tracks = WithEnabled(@, filename, enabled)]
             ELSE None,
             ACall("set_track_enabled", category, NoName))

\* SoundTab._toggle_track(track, toggle_label) of the options screen, for
\* the track named filename of get_playlist(category): the flag of the
\* Track is flipped in place, then save_playlist_settings() is called
ToggleTrack(category, filename) ==
  /\ category \in DOMAIN playlists
  /\ FirstNamed(playlists[category].tracks, filename) # 0
  /\ Configured(category,
                [playlists[category] EXCEPT
                   !.tracks[FirstNamed(playlists[category].tracks, filename)].enabled
                     = ~ @],
                ACall("toggle_track", category, NoName))

\* AudioManager.reorder_tracks(category, new_order)
ReorderTracks(category, new_order) ==
  Configured(category,
             IF category \in DOMAIN playlists
             THEN [playlists[category] EXCEPT
                     !.tracks = Reordered(<<>>, @, new_order)]
             ELSE None,
             ACall("reorder_tracks", category, NoName))

\* the permutations random.shuffle may leave in set_shuffle
SetShuffles(category, enabled) ==
  IF /\ category \in DOMAIN playlists /\ enabled
     /\ get_enabled_tracks(playlists[category]) # <<>>
  THEN Shuffles(playlists[category]) ELSE {<<>>}

\* AudioManager.set_shuffle(category, enabled)
SetShuffle(category, enabled, perm) ==
  /\ perm \in SetShuffles(category, enabled)
  /\ Configured(category,
                IF category \in DOMAIN playlists
                THEN set_shuffle(playlists[category], enabled, perm)
                ELSE None,
                ACall("set_shuffle", category, NoName))

\* AudioManager.set_repeat(category, enabled)
SetRepeat(category, enabled) ==
  Configured(category,
             IF category \in DOMAIN playlists
             THEN [playlists[category] EXCEPT !.repeat = enabled]
             ELSE None,
             ACall("set_repeat", category, NoName))

\* the application is started again over the same audio directory and the
\* same settings: a new AudioManager, a new mixer
Restart ==
  /\ playlists' = InitialPlaylists(audio_available, files, settings)
  /\ master_volume' = 70
  /\ music_volume' = 70
  /\ effects_volume' = 80
  /\ current_category' = NoCategory
  /\ current_track' = None
  /\ is_playing' = FALSE
  /\ is_paused' = FALSE
  /\ on_track_change' = <<>>
  /\ mixer' = IF audio_available THEN MixerIdle ELSE MixerClosed
  /\ alast' = ACall("construct", NoCategory, NoName)
  /\ UNCHANGED <<storeVars, audio_available, files, settings>>

(***************************************************************************)
(* Audio Engine: volumes, effects, cleanup                                 *)
(***************************************************************************)
\* max(0.0, min(1.0, volume)) in hundredths
Min(a, b) == IF a < b THEN a ELSE b
Max(a, b) == IF a > b THEN a ELSE b
\* the clamp without its lower end
Clamp_NoFloor(volume) == Min(100, volume)
Clamp(volume) == Max(0, Min(100, volume))

\* _apply_music_volume handing the master volume alone to the mixer
apply_music_volume_MasterOnly(master, music) ==
  IF audio_available /\ is_playing
  THEN [mixer EXCEPT !.volume = master * 100] ELSE mixer

\* _apply_music_volume: the mixer after the call
apply_music_volume(master, music) ==
  IF audio_available /\ is_playing
  THEN [mixer EXCEPT !.volume = master * music] ELSE mixer

\* AudioManager.set_master_volume(volume)
SetMasterVolume(volume) ==
  /\ Alive
  /\ master_volume' = Clamp(volume)
  /\ mixer' = apply_music_volume(master_volume', music_volume)
  /\ alast' = ACall("set_master_volume", NoCategory, NoName)
  /\ UNCHANGED <<storeVars, audio_available, files, settings, music_volume,
                 effects_volume, playlists, playbackVars, on_track_change>>

\* AudioManager.set_music_volume(volume)
SetMusicVolume(volume) ==
  /\ Alive
  /\ music_volume' = Clamp(volume)
  /\ mixer' = apply_music_volume(master_volume, music_volume')
  /\ alast' = ACall("set_music_volume", NoCategory, NoName)
  /\ UNCHANGED <<storeVars, audio_available, files, settings, master_volume,
                 effects_volume, playlists, playbackVars, on_track_change>>

\* AudioManager.set_effects_volume(volume)
SetEffectsVolume(volume) ==
  /\ Alive
  /\ effects_volume' = Clamp(volume)
  /\ alast' = ACall("set_effects_volume", NoCategory, NoName)
  /\ UNCHANGED <<storeVars, audio_available, files, settings, master_volume,
                 music_volume, playlists, playbackVars, on_track_change, mixer>>

\* AudioManager.play_effect(effect_name): a sound of the cache is played at
\* the effective effects volume; nothing of the engine changes
PlayEffect(effect_name) ==
  /\ Alive
  /\ alast' = ACall("play_effect", NoCategory, NoName)
  /\ UNCHANGED <<storeVars, audio_available, files, settings, volumeVars,
                 playlists, playbackVars, on_track_change, mixer>>

\* AudioManager.cleanup(): pygame.mixer.music.stop() and pygame.mixer.quit()
Cleanup ==
  /\ Alive
  /\ mixer' = IF audio_available THEN [mixer EXCEPT !.state = "closed"] ELSE mixer
  /\ alast' = ACall("cleanup", NoCategory, NoName)
  /\ UNCHANGED <<storeVars, audio_available, files, settings, volumeVars,
                 playlists, playbackVars, on_track_change>>

(***************************************************************************)
(* Sessions of the Audio Engine                                            *)
(***************************************************************************)
\* a settings file without playlist_config
NewSettings == [playlist_config |-> None]

\* the audio directory holding the files named, those of bad being files the
\* mixer cannot decode
Dir(names, bad) == [f \in names |-> IF f \in bad THEN "corrupt" ELSE "ok"]

\* every permutation random.shuffle can leave for the playlists modelled
ShuffleInputs == UNION {ShuffleResults(n) : n \in 0..Len(AudioFiles)}

\* a session of playback: two menu tracks and a battle track, one of which
\* may be undecodable; a file may be removed while the program runs
PlayDirs ==
  LET names == {"Main_Menu_1.mp3", "Main_Menu_2.mp3", "Battle_1.mp3"} IN
  { Dir(names, {}), Dir(names, {"Main_Menu_2.mp3"}), Dir(names, {"Battle_1.mp3"}) }

InitPlay ==
  /\ StoreIdle
  /\ \E dir \in PlayDirs : AudioManager(TRUE, dir, NewSettings)

NextPlay ==
  \/ \E c \in {"menu", "battle", "victory"}, force \in BOOLEAN, r \in 0..1 :
       RequestMusic(c, force, r)
  \/ \E perm \in ShuffleInputs : PlayNext(perm)
  \/ PlayPrevious
  \/ StopMusic
  \/ PauseMusic
  \/ ResumeMusic
  \/ TogglePause
  \/ \E enabled \in BOOLEAN : SetRepeat("menu", enabled)
  \/ \E enabled \in BOOLEAN, perm \in ShuffleInputs : SetShuffle("menu", enabled, perm)
  \/ RegisterCallback("on_track_changed")
  \/ RemoveFile("Main_Menu_1.mp3")

SpecPlay == InitPlay /\ [][NextPlay]_vars

\* a session of calls on the menu playlist of an engine that found three
\* menu tracks
PlaylistDir ==
  Dir({"Main_Menu_1.mp3", "Main_Menu_2.mp3", "Main_Menu_3.ogg"}, {})

InitPlaylist == StoreIdle /\ AudioManager(TRUE, PlaylistDir, NewSettings)

NextPlaylist ==
  \/ \E perm \in ShuffleInputs : NextTrack("menu", perm)
  \/ PreviousTrack("menu")
  \/ \E enabled \in BOOLEAN, perm \in ShuffleInputs : SetShuffle("menu", enabled, perm)
  \/ \E enabled \in BOOLEAN : SetRepeat("menu", enabled)
  \/ \E f \in DOMAIN PlaylistDir, enabled \in BOOLEAN :
       SetTrackEnabled("menu", f, enabled)

SpecPlaylist == InitPlaylist /\ [][NextPlaylist]_vars

\* a session that configures the playlists and starts the application
\* again: two menu tracks and a battle track
ConfigDir == Dir({"Main_Menu_1.mp3", "Main_Menu_2.mp3", "Battle_1.mp3"}, {})

\* the orders handed to reorder_tracks: the second track first, and a list
\* that names a file twice and a file that does not exist
OrderInputs ==
  { <<"Main_Menu_2.mp3", "Main_Menu_1.mp3">>,
    <<"Main_Menu_2.mp3", "Main_Menu_2.mp3", "Victory_1.mp3">> }

InitConfig == StoreIdle /\ AudioManager(TRUE, ConfigDir, NewSettings)

NextConfig ==
  \/ \E c \in {"menu", "battle", "victory"}, f \in DOMAIN ConfigDir, enabled \in BOOLEAN :
       SetTrackEnabled(c, f, enabled)
  \/ \E f \in DOMAIN ConfigDir : ToggleTrack("menu", f)
  \/ \E new_order \in OrderInputs : ReorderTracks("menu", new_order)
  \/ \E enabled \in BOOLEAN, perm \in ShuffleInputs : SetShuffle("menu", enabled, perm)
  \/ \E enabled \in BOOLEAN : SetRepeat("menu", enabled)
  \/ SavePlaylistSettings
  \/ Restart

SpecConfig == InitConfig /\ [][NextConfig]_vars

\* a session in a process whose audio backend is unavailable.  The settings
\* are absent, new, or hold the playlist_config an earlier session saved
\* when the backend was there
SavedSettings ==
  [playlist_config |-> Serialized(InitialPlaylists(TRUE, ConfigDir, NewSettings))]

VolumeInputs == {-10, 50, 150}

InitNoAudio ==
  /\ StoreIdle
  /\ \E st \in {None, NewSettings, SavedSettings} : AudioManager(FALSE, ConfigDir, st)

NextNoAudio ==
  \/ \E c \in {"menu", "victory"}, force \in BOOLEAN : RequestMusic(c, force, 0)
  \/ PlayNext(<<>>)
  \/ PlayPrevious
  \/ StopMusic
  \/ PauseMusic
  \/ ResumeMusic
  \/ TogglePause
  \/ PlayEffect("button_play")
  \/ \E v \in VolumeInputs : SetMasterVolume(v)
  \/ \E v \in VolumeInputs : SetMusicVolume(v)
  \/ \E v \in VolumeInputs : SetEffectsVolume(v)
  \/ \E enabled \in BOOLEAN : SetTrackEnabled("menu", "Main_Menu_1.mp3", enabled)
  \/ \E new_order \in OrderInputs : ReorderTracks("menu", new_order)
  \/ \E enabled \in BOOLEAN : SetShuffle("menu", enabled, <<>>)
  \/ \E enabled \in BOOLEAN : SetRepeat("menu", enabled)
  \/ SavePlaylistSettings
  \/ Cleanup

SpecNoAudio == InitNoAudio /\ [][NextNoAudio]_vars

\* a session of the sound tab of the options screen while the menu music
\* plays: two menu tracks that are toggled, reordered, shuffled and skipped,
\* calls on the playlist itself, and a new start of the application
OptionsDir == Dir({"Main_Menu_1.mp3", "Main_Menu_2.mp3"}, {})

InitOptions == StoreIdle /\ AudioManager(TRUE, OptionsDir, NewSettings)

NextOptions ==
  \/ \E force \in BOOLEAN, r \in 0..1 : RequestMusic("menu", force, r)
  \/ \E perm \in ShuffleInputs : PlayNext(perm)
  \/ PlayPrevious
  \/ \E perm \in ShuffleInputs : NextTrack("menu", perm)
  \/ PreviousTrack("menu")
  \/ \E f \in DOMAIN OptionsDir, enabled \in BOOLEAN :
       SetTrackEnabled("menu", f, enabled)
  \/ \E new_order \in OrderInputs : ReorderTracks("menu", new_order)
  \/ \E enabled \in BOOLEAN, perm \in ShuffleInputs : SetShuffle("menu", enabled, perm)
  \/ \E enabled \in BOOLEAN : SetRepeat("menu", enabled)
  \/ Restart

SpecOptions == InitOptions /\ [][NextOptions]_vars

\* a session of screens that register and unregister their track-change
\* callbacks while the menu music is started, skipped and stopped; one of
\* the callbacks raises
Callbacks == {"on_track_change", "on_track_change_raising"}

InitNotify == StoreIdle /\ AudioManager(TRUE, OptionsDir, NewSettings)

NextNotify ==
  \/ \E callback \in Callbacks :
       /\ Len(on_track_change) < MaxObservers
       /\ register_track_change_callback(callback)
  \/ \E callback \in Callbacks : UnregisterCallback(callback)
  \/ \E force \in BOOLEAN : RequestMusic("menu", force, 0)
  \/ PlayNext(<<>>)
  \/ PlayPrevious
  \/ StopMusic

SpecNotify == InitNotify /\ [][NextNotify]_vars

\* a session of the volume sliders while music is requested, skipped,
\* paused and stopped: a menu track, and a battle track the mixer cannot
\* decode
VolumeDir == Dir({"Main_Menu_1.mp3", "Battle_1.mp3"}, {"Battle_1.mp3"})

\* the values the sliders hand over: below 0, within range, above 1
SliderInputs == VolumeInputs \cup {40}

InitVolume == StoreIdle /\ AudioManager(TRUE, VolumeDir, NewSettings)

NextVolume ==
  \/ \E v \in SliderInputs : SetMasterVolume(v)
  \/ \E v \in SliderInputs : SetMusicVolume(v)
  \/ \E v \in SliderInputs : SetEffectsVolume(v)
  \/ \E c \in {"menu", "battle"}, force \in BOOLEAN : RequestMusic(c, force, 0)
  \/ PlayNext(<<>>)
  \/ StopMusic
  \/ PauseMusic
  \/ ResumeMusic
  \/ PlayEffect("button_apply")

SpecVolume == InitVolume /\ [][NextVolume]_vars

\* a session in which the playlist is configured, a third menu track is put
\* into the audio directory or taken out of it, and the application is
\* started again
ReloadDir ==
  [f \in {"Main_Menu_1.mp3", "Main_Menu_2.mp3", "Main_Menu_3.ogg"} |->
     IF f = "Main_Menu_3.ogg" THEN "missing" ELSE "ok"]

InitReload == StoreIdle /\ AudioManager(TRUE, ReloadDir, NewSettings)

NextReload ==
  \/ \E f \in DOMAIN ReloadDir, enabled \in BOOLEAN : SetTrackEnabled("menu", f, enabled)
  \/ \E new_order \in OrderInputs : ReorderTracks("menu", new_order)
  \/ \E enabled \in BOOLEAN : SetRepeat("menu", enabled)
  \/ AddFile("Main_Menu_3.ogg")
  \/ RemoveFile("Main_Menu_3.ogg")
  \/ Restart

SpecReload == InitReload /\ [][NextReload]_vars

\* a session that reorders the three menu tracks while they are toggled,
\* shuffled and played.  The orders name all files, leave one out, name one
\* twice together with a file that does not exist, or name nothing
ReorderInputs ==
  { <<"Main_Menu_3.ogg", "Main_Menu_2.mp3", "Main_Menu_1.mp3">>,
    <<"Main_Menu_3.ogg", "Main_Menu_1.mp3">>,
    <<"Main_Menu_2.mp3", "Main_Menu_2.mp3", "Victory_1.mp3", "Main_Menu_1.mp3">>,
    <<>> }

InitReorder == StoreIdle /\ AudioManager(TRUE, PlaylistDir, NewSettings)

NextReorder ==
  \/ \E c \in {"menu", "victory"}, new_order \in ReorderInputs :
       ReorderTracks(c, new_order)
  \/ \E f \in {"Main_Menu_1.mp3", "Main_Menu_3.ogg"}, enabled \in BOOLEAN :
       SetTrackEnabled("menu", f, enabled)
  \/ \E enabled \in BOOLEAN, perm \in ShuffleInputs : SetShuffle("menu", enabled, perm)
  \/ RequestMusic("menu", FALSE, 0)
  \/ PauseMusic

SpecReorder == InitReorder /\ [][NextReorder]_vars

(***************************************************************************)
(* Properties of the Profile Store                                         *)
(***************************************************************************)
\* nicknames compared as the specification compares them, by their folded form
Fold(c) == IF c = "A" THEN "a" ELSE IF c = "B" THEN "b" ELSE IF c = "D" THEN "d" ELSE c
SameNickname(a, b) ==
  Len(a) = Len(b) /\ \A i \in 1..Len(a) : Fold(a[i]) = Fold(b[i])

\* the trimmed form of a nickname: its longest part without outer blanks
Trimmed(n) ==
  IF \A i \in 1..Len(n) : n[i] = " " THEN <<>>
  ELSE LET first == CHOOSE i \in 1..Len(n) : n[i] # " " /\ \A j \in 1..(i - 1) : n[j] = " "
           final == CHOOSE i \in 1..Len(n) : n[i] # " " /\ \A j \in (i + 1)..Len(n) : n[j] = " "
       IN [i \in 1..(final - first + 1) |-> n[first + i - 1]]

StoredNicknameLike(ps, n) ==
  \E i \in 1..Len(ps) : SameNickname(ps[i].profile.nickname, n)

\* C1: no two stored profiles have nicknames that are equal when compared
\* case-insensitively, whatever create_profile, delete_profile,
\* set_active_profile and update_profile calls were made on an empty store
C1_NicknamesUnique ==
  \A i, j \in 1..Len(profiles) :
    i # j => ~ SameNickname(profiles[i].profile.nickname, profiles[j].profile.nickname)

\* C2: the number of stored profiles is never greater than MAX_PROFILES
C2_AtMostMaxProfiles == Len(profiles) <= MAX_PROFILES

\* a create_profile call was refused by a store holding MAX_PROFILES profiles
C2_Witness ==
  /\ Len(profiles) = MAX_PROFILES
  /\ last.op = "create_profile"
  /\ ~ last.ok
  /\ nextId = 3

\* C3: the active profile id is unset or is the key of a stored profile, and
\* get_active_profile returns a profile exactly when the active id is set
C3_ActiveExists ==
  /\ active = NoId \/ \E i \in 1..Len(profiles) : profiles[i].key = active
  /\ (get_active_profile(profiles, active) # None) <=> (active # NoId)

\* a profile was deleted while another one was and stays active
C3_Witness ==
  /\ last.op = "delete_profile"
  /\ last.ok
  /\ active # NoId
  /\ active # last.id

\* the entries of ps other than key k, in their order
Others(ps, k) == SelectSeq(ps, LAMBDA e : e.key # k)

\* C4: create_profile(N) with a non-blank N unlike every stored nickname, on a
\* store below MAX_PROFILES, returns a new profile with a fresh id; the store
\* grows by that one profile, whose nickname is N trimmed; the active id and
\* all other profiles are unchanged
C4_CreateSucceeds ==
  [][\A n \in NicknameInputs :
       ( /\ last'.op = "create_profile"
         /\ CreateProfile(n, "ok")
         /\ Trimmed(n) # <<>>
         /\ ~ StoredNicknameLike(profiles, Trimmed(n))
         /\ Len(profiles) < MAX_PROFILES )
       => ( /\ last'.ok
            /\ last'.ret # NoId
            /\ \A i \in 1..Len(profiles) : profiles[i].key # last'.ret
            /\ Len(profiles') = Len(profiles) + 1
            /\ Others(profiles', last'.ret) = profiles
            /\ get_profile(profiles', last'.ret) # None
            /\ get_profile(profiles', last'.ret).id = last'.ret
            /\ get_profile(profiles', last'.ret).nickname = Trimmed(n)
            /\ active' = active )]_vars

\* create_profile(" a ") added a profile named "a" to a store that holds
\* another profile and has an active one
C4_Witness ==
  /\ last.op = "create_profile"
  /\ last.ok
  /\ last.nick = <<" ", "a", " ">>
  /\ get_profile(profiles, last.ret) # None
  /\ get_profile(profiles, last.ret).nickname = <<"a">>
  /\ Len(profiles) >= 2
  /\ active # NoId

\* C5: create_profile returns None and leaves the stored profiles, the active
\* id and the persisted file unchanged when the store holds MAX_PROFILES
\* profiles, when the trimmed nickname is empty, and when the trimmed nickname
\* equals a stored one ignoring case
C5_CreateFails ==
  [][\A n \in LoadNicknames :
       ( /\ last'.op = "create_profile"
         /\ CreateProfile(n, "ok")
         /\ \/ Len(profiles) >= MAX_PROFILES
            \/ Trimmed(n) = <<>>
            \/ StoredNicknameLike(profiles, Trimmed(n)) )
       => ( /\ ~ last'.ok
            /\ last'.ret = NoId
            /\ profiles' = profiles
            /\ active' = active
            /\ file' = file )]_vars

\* a full store with an active profile refused a nickname that is not blank
\* and not taken
C5_Witness ==
  /\ last.op = "create_profile"
  /\ ~ last.ok
  /\ Len(profiles) = MAX_PROFILES
  /\ active # NoId
  /\ Trimmed(last.nick) # <<>>
  /\ ~ StoredNicknameLike(profiles, Trimmed(last.nick))

\* C6: right after set_active_profile(id) returned True, the last_played of
\* profile id is the maximum over the stored profiles and get_all_profiles()
\* returns that profile first
C6_ActivatedSortsFirst ==
  (last.op = "set_active_profile" /\ last.ok)
  => ( /\ \A i \in 1..Len(profiles) :
            profiles[i].profile.last_played
              <= get_profile(profiles, last.id).last_played
       /\ get_all_profiles(profiles)[1].key = last.id )

\* position of the object stored under key k in the dict
Position(ps, k) == CHOOSE i \in 1..Len(ps) : ps[i].key = k

\* listing holds every entry of ps once, by last_played descending, entries
\* of equal last_played in the order of ps
IsStableListing(listing, ps) ==
  /\ Len(listing) = Len(ps)
  /\ \A i \in 1..Len(ps) :
       Cardinality({j \in 1..Len(listing) : listing[j] = ps[i]}) = 1
  /\ \A i, j \in 1..Len(listing) :
       i < j =>
         /\ listing[i].profile.last_played >= listing[j].profile.last_played
         /\ listing[i].profile.last_played = listing[j].profile.last_played
              => Position(ps, listing[i].key) < Position(ps, listing[j].key)

\* C7: get_all_profiles() returns every stored profile exactly once, by
\* last_played descending, profiles of equal last_played in insertion order,
\* and does not change the store
C7_StableListing ==
  [][GetAllProfiles
       => ( /\ IsStableListing(last'.listing, profiles)
            /\ profiles' = profiles
            /\ active' = active
            /\ file' = file )]_vars

\* a listing of three profiles, two of them of equal last_played, in which
\* the profile inserted last comes first
C7_Witness ==
  /\ last.op = "get_all_profiles"
  /\ Len(last.listing) = 3
  /\ last.listing = get_all_profiles(profiles)
  /\ last.listing[1].key = profiles[3].key
  /\ last.listing[2].profile.last_played = last.listing[3].profile.last_played
  /\ last.listing[1].profile.last_played > last.listing[2].profile.last_played

\* C8: delete_profile(id) of a stored profile removes that profile only and
\* returns True; get_active_profile() is None afterwards if id was active,
\* and the active id is unchanged if it was not
C8_DeleteFrame ==
  [][\A k \in 1..(MaxIds + 1) :
       ( /\ last'.op = "delete_profile"
         /\ DeleteProfile(k, "ok")
         /\ \E i \in 1..Len(profiles) : profiles[i].key = k )
       => ( /\ last'.ok
            /\ \A i \in 1..Len(profiles') : profiles'[i].key # k
            /\ profiles' = Others(profiles, k)
            /\ Len(profiles') = Len(profiles) - 1
            /\ active = k => get_active_profile(profiles', active') = None
            /\ active # k => active' = active )]_vars

\* a profile that was not the active one was deleted from a store of three
C8_Witness ==
  /\ last.op = "delete_profile"
  /\ last.ok
  /\ Len(profiles) = 2
  /\ active # NoId
  /\ get_active_profile(profiles, active) # None

\* the file holds the record of the store: every profile under its key, in
\* order, with all its fields, and the active id
PersistedEquals(f, ps, act) ==
  /\ f.kind = "record"
  /\ Len(f.profiles) = Len(ps)
  /\ \A i \in 1..Len(ps) :
       /\ f.profiles[i].key = ps[i].key
       /\ f.profiles[i].data = ps[i].profile
  /\ f.active_profile_id = act

\* a step that is a call of a mutating operation whose _save ends as w
MutatingCall(w) ==
  \/ \E n \in IONicknames : CreateProfile(n, w)
  \/ \E k \in 1..(MaxIds + 1) : DeleteProfile(k, w)
  \/ \E k \in 1..(MaxIds + 1) : SetActiveProfile(k, w)
  \/ \E k \in 1..(MaxIds + 1) : UpdateProfile(k, "games_played", 1, w)

\* the change the successful call recorded in last' makes to the store
MemoryChanged ==
  CASE last'.op = "create_profile" ->
         /\ Len(profiles') = Len(profiles) + 1
         /\ get_profile(profiles', last'.ret) # None
    [] last'.op = "delete_profile" ->
         /\ Len(profiles') = Len(profiles) - 1
         /\ get_profile(profiles', last'.id) = None
    [] last'.op = "set_active_profile" ->
         /\ active' = last'.id
         /\ get_profile(profiles', last'.id).last_played = now
    [] last'.op = "update_profile" ->
         get_profile(profiles', last'.id).games_played = 1
    [] OTHER -> FALSE

\* C9: after a mutating operation that succeeds, the persisted record equals
\* the in-memory store when the write succeeded; when the write failed the
\* in-memory change is kept, the operation reports success and no exception
\* reaches the caller
C9_WriteThrough ==
  [][\A w \in WriteOutcomes :
       (last'.ok /\ MutatingCall(w))
       => ( /\ last'.exc = "none"
            /\ MemoryChanged
            /\ w = "ok" => PersistedEquals(file', profiles', active') )]_vars

\* set_active_profile returned True although its write failed: the store
\* has the new active id, the file the old one
C9_Witness ==
  /\ failures = 1
  /\ last.op = "set_active_profile"
  /\ last.ok
  /\ active = last.id
  /\ file.kind = "record"
  /\ file.active_profile_id # active
  /\ Len(file.profiles) = Len(profiles)

\* content that is no record of profiles: unreadable, not JSON, JSON of
\* another shape, or a profile entry with a field missing or unknown
Malformed(f) ==
  \/ f.kind \in {"unreadable", "invalid_json", "not_utf8", "json_list"}
  \/ /\ f.kind = "record"
     /\ \E i \in 1..Len(f.profiles) :
          \/ \E name \in {"id", "nickname", "created_at", "last_played"} :
               name \notin DOMAIN f.profiles[i].data
          \/ \E name \in DOMAIN f.profiles[i].data :
               name \notin {"id", "nickname", "created_at", "last_played", "games_played"}

\* C10: constructing a ProfileManager over a file whose content is unreadable
\* or malformed yields an empty store with no active profile and raises no
\* exception
C10_MalformedLoadsEmpty ==
  (last.op = "construct" /\ Malformed(file))
  => ( /\ constructed
       /\ last.exc = "none"
       /\ profiles = <<>>
       /\ active = NoId )

\* every field of the profile under key k but the field named key is the same
\* in ps and qs, and so is every other profile
OnlyFieldChanged(ps, qs, k, key) ==
  /\ Len(qs) = Len(ps)
  /\ \A i \in 1..Len(ps) :
       /\ qs[i].key = ps[i].key
       /\ \A f \in SchemaFields :
            (ps[i].key # k \/ f # key) => qs[i].profile[f] = ps[i].profile[f]

\* C11: update_profile on an existing profile changes only the named schema
\* fields, ignores every other name (win_rate and to_dict among them) without
\* raising, returns True, and lets no exception cross to the caller.
C11_UpdateIgnoresOtherNames ==
  [][\A k \in Keys(profiles), key \in FieldNames :
       UpdateProfile(k, key, FieldValue(key), "ok") =>
         /\ last'.exc = "none"
         /\ last'.ok
         /\ OnlyFieldChanged(profiles, profiles', k, key)
         /\ key \notin SchemaFields => profiles' = profiles]_vars

\* C12: each profile stored under key k has id = k, so that get_profile(p.id)
\* returns p for every profile p of the store.
C12_IdIsKey ==
  \A i \in 1..Len(profiles) :
    /\ profiles[i].profile.id = profiles[i].key
    /\ get_profile(profiles, profiles[i].profile.id) = profiles[i].profile

\* C13: set_active_profile, delete_profile and update_profile with an id that
\* is not in the store return False and leave the stored profiles (every
\* last_played with them), the active id and the persisted file unchanged.
C13_UnknownIdChangesNothing ==
  [][\A k \in IdInputs :
       (/\ k \notin Keys(profiles)
        /\ \/ SetActiveProfile(k, "ok")
           \/ DeleteProfile(k, "ok")
           \/ \E key \in FieldNames : UpdateProfile(k, key, FieldValue(key), "ok"))
       => /\ ~ last'.ok
          /\ last'.exc = "none"
          /\ last'.id = k
          /\ profiles' = profiles
          /\ active' = active
          /\ file' = file]_vars

\* an unknown id was refused by a store that holds profiles, an active
\* reference and a written file
C13_Witness ==
  /\ last.op \in {"set_active_profile", "delete_profile", "update_profile"}
  /\ ~ last.ok
  /\ last.exc = "none"
  /\ last.id \notin Keys(profiles)
  /\ Len(profiles) >= 2
  /\ active # NoId
  /\ file = Serialize(profiles, active)

(***************************************************************************)
(* Properties of the Audio Engine                                          *)
(***************************************************************************)
\* the states of the playback state machine, formed by the playback fields
Stopped == ~ is_playing
Playing == is_playing /\ ~ is_paused
Paused == is_playing /\ is_paused

\* C14: in every state where the engine is Playing category c,
\* request_music(c, force_restart=False) returns None, leaves current_track,
\* current_category, the flags and the playlists unchanged, starts no stream
\* and invokes no callback.
C14_SameCategoryRequestIsNoOp ==
  [][\A c \in Categories, r \in 0..1 :
       (/\ alast'.op = "request_music"
        /\ Playing /\ current_category = c
        /\ RequestMusic(c, FALSE, r))
       => /\ alast'.ret = NoName
          /\ alast'.played = NoName
          /\ alast'.notified = <<>>
          /\ UNCHANGED <<playbackVars, playlists, mixer>>]_vars

\* category c has an enabled track whose file can be played
HasPlayableTrack(c) ==
  /\ c \in DOMAIN playlists
  /\ \E i \in 1..Len(playlists[c].tracks) :
       playlists[c].tracks[i].enabled /\ files[playlists[c].tracks[i].filename] = "ok"

\* category c has enabled tracks and the file of each can be played
AllEnabledPlayable(c) ==
  /\ c \in DOMAIN playlists
  /\ \E i \in 1..Len(playlists[c].tracks) : playlists[c].tracks[i].enabled
  /\ \A i \in 1..Len(playlists[c].tracks) :
       playlists[c].tracks[i].enabled => files[playlists[c].tracks[i].filename] = "ok"

\* the step restarted playback in category c: the engine is Playing an
\* enabled track of c, whose display name was returned, whose file was
\* handed to the mixer, and with which every callback was called
RestartedIn(c) ==
  /\ is_playing' /\ ~ is_paused'
  /\ current_category' = c
  /\ mixer'.state = "playing"
  /\ \E i \in 1..Len(playlists'[c].tracks) :
       LET t == playlists'[c].tracks[i] IN
       /\ t.enabled
       /\ current_track' = [filename |-> t.filename, display_name |-> t.display_name,
                            category |-> c]
       /\ alast'.ret = t.display_name
       /\ alast'.played = t.filename
       /\ Len(alast'.notified) = Len(on_track_change)
       /\ \A j \in 1..Len(on_track_change) :
            /\ alast'.notified[j].callback = on_track_change[j]
            /\ alast'.notified[j].track = current_track'

\* C15 as stated: from any state, request_music(c, force_restart=True) for a
\* category that has at least one enabled playable track restarts playback
\* in c.
C15_ForceRestartWithSomePlayable ==
  [][\A c \in Categories, r \in 0..1 :
       (/\ alast'.op = "request_music"
        /\ HasPlayableTrack(c)
        /\ RequestMusic(c, TRUE, r))
       => RestartedIn(c)]_vars

\* C15 amended: from any state, request_music(c, force_restart=True) for a
\* category whose enabled tracks are all playable (and that has one) restarts
\* playback in c: Playing, not paused, current_category = c, current_track an
\* enabled track of c, its display name returned, the callbacks notified.
C15_ForceRestartPlays ==
  [][\A c \in Categories, r \in 0..1 :
       (/\ alast'.op = "request_music"
        /\ AllEnabledPlayable(c)
        /\ RequestMusic(c, TRUE, r))
       => RestartedIn(c)]_vars

\* a forced request restarted the category that was being played, and a
\* callback heard of it
C15_Witness ==
  /\ alast.op = "request_music"
  /\ alast.force
  /\ alast.category = current_category
  /\ alast.ret = current_track.display_name
  /\ Len(alast.notified) >= 1
  /\ playlists[current_category].current_index >= 1
  /\ Playing

\* C16: pause_music takes Playing to Paused and changes nothing in Stopped or
\* Paused; resume_music takes Paused to Playing and changes nothing
\* otherwise; stop_music takes Playing or Paused to Stopped, clearing
\* current_track, current_category and the paused flag, and changes nothing
\* in Stopped; none of the three changes a playlist.
C16_PauseResumeStop ==
  [][/\ PauseMusic =>
          /\ Playing => (Paused' /\ UNCHANGED <<current_track, current_category>>)
          /\ ~ Playing => UNCHANGED <<playbackVars, mixer>>
          /\ UNCHANGED playlists
     /\ ResumeMusic =>
          /\ Paused => (Playing' /\ UNCHANGED <<current_track, current_category>>)
          /\ ~ Paused => UNCHANGED <<playbackVars, mixer>>
          /\ UNCHANGED playlists
     /\ StopMusic =>
          /\ (Playing \/ Paused) =>
               /\ Stopped' /\ ~ is_paused'
               /\ current_track' = None /\ current_category' = NoCategory
          /\ Stopped => UNCHANGED <<playbackVars, mixer>>
          /\ UNCHANGED playlists]_vars

\* the engine is Paused by a pause_music call, with a playlist whose cursor
\* has moved
C16_Witness ==
  /\ alast.op = "pause_music"
  /\ Paused
  /\ current_category = "menu"
  /\ playlists["menu"].current_index = 1
  /\ playlists["menu"].shuffle

\* C17: when the audio backend is unavailable every public method returns
\* None, raises nothing, keeps the engine Stopped with no playlists and no
\* current track or category, and leaves the persisted settings,
\* playlist_config among them, as they were.
C17_UnavailableIsNoOp ==
  [][~ audio_available =>
       /\ alast'.ret = NoName
       /\ alast'.exc = "none"
       /\ Stopped' /\ ~ is_paused'
       /\ current_track' = None /\ current_category' = NoCategory
       /\ DOMAIN playlists' = {}
       /\ settings' = settings]_vars

\* the names of the enabled tracks of a playlist
EnabledSet(pl) ==
  {pl.tracks[i].filename : i \in {j \in 1..Len(pl.tracks) : pl.tracks[j].enabled}}

\* C18: save_playlist_settings() followed by the construction of a fresh
\* engine over the same files and settings gives, for each category, the
\* same track order, the same set of enabled tracks (none and all included),
\* and the same shuffle and repeat flags.
C18_SaveThenConstructRoundTrip ==
  [][(alast.op = "save_playlist_settings" /\ Restart) =>
       /\ DOMAIN playlists' = DOMAIN playlists
       /\ \A c \in DOMAIN playlists :
            /\ Filenames(playlists'[c].tracks) = Filenames(playlists[c].tracks)
            /\ EnabledSet(playlists'[c]) = EnabledSet(playlists[c])
            /\ playlists'[c].shuffle = playlists[c].shuffle
            /\ playlists'[c].repeat = playlists[c].repeat]_vars

\* the playlist of category c has n enabled tracks and repeats
RepeatsOver(c, n) ==
  /\ c \in DOMAIN playlists
  /\ Len(get_enabled_tracks(playlists[c])) = n
  /\ playlists[c].repeat

\* C19 as stated: on a playlist with 3 enabled tracks, repeat on and the
\* cursor at 0, the fourth next_track call in a row returns the track at
\* index 0.
C19_FourthNextReturnsFirst ==
  (/\ alast.op = "next_track" /\ alast.streak = 4
   /\ RepeatsOver(alast.category, 3))
  => alast.track = TrackId(get_enabled_tracks(playlists[alast.category])[1])

\* C19 amended: on a playlist with 3 enabled tracks, repeat on and the cursor
\* at 0, the third next_track call in a row brings the cursor back to 0: with
\* shuffle off it returns the track at index 0, with shuffle on the shuffle
\* order is a new permutation of the three indices and the track returned is
\* the one it puts first.
C19_ThirdNextReturnsFirst ==
  (/\ alast.op = "next_track" /\ alast.streak = 3
   /\ RepeatsOver(alast.category, 3))
  => LET pl == playlists[alast.category]
         enabled == get_enabled_tracks(pl)
     IN /\ pl.current_index = 0
        /\ ~ pl.shuffle => alast.track = TrackId(enabled[1])
        /\ pl.shuffle =>
             /\ Len(pl.shuffled_order) = 3
             /\ {pl.shuffled_order[i] : i \in 1..3} = {0, 1, 2}
             /\ alast.track = TrackId(enabled[pl.shuffled_order[1] + 1])

\* three next_track calls in a row were made on such a playlist with shuffle
\* on, and the new order does not begin with index 0
C19_Witness ==
  /\ alast.op = "next_track" /\ alast.streak = 3
  /\ RepeatsOver("menu", 3)
  /\ playlists["menu"].shuffle
  /\ playlists["menu"].shuffled_order[1] = 2

\* C20: with repeat off, play_next at the last enabled track returns None and
\* playback stops: the engine is Stopped afterwards.
C20_PlayNextPastEndStops ==
  [][\A perm \in ShuffleInputs :
       (/\ alast'.op = "play_next"
        /\ is_playing
        /\ current_category \in DOMAIN playlists
        /\ ~ playlists[current_category].repeat
        /\ playlists[current_category].current_index
             = Len(get_enabled_tracks(playlists[current_category])) - 1
        /\ PlayNext(perm))
       => /\ alast'.ret = NoName
          /\ Stopped']_vars

\* every track of category c is disabled
AllDisabled(c) ==
  /\ c \in DOMAIN playlists
  /\ \A i \in 1..Len(playlists[c].tracks) : ~ playlists[c].tracks[i].enabled

\* C21: after every track of a category has been disabled,
\* get_enabled_tracks() is empty, get_current_track(), next_track() and
\* previous_track() of its playlist return None without moving the cursor,
\* and request_music for the category, forced or not, returns None and
\* leaves the playback state unchanged.
C21_AllDisabledPlaysNothing ==
  [][\A c \in Categories :
       AllDisabled(c) =>
         /\ get_enabled_tracks(playlists[c]) = <<>>
         /\ get_current_track(playlists[c]) = None
         /\ \A perm \in ShuffleInputs :
              NextTrack(c, perm) => (alast'.track = None /\ UNCHANGED playlists)
         /\ PreviousTrack(c) => (alast'.track = None /\ UNCHANGED playlists)
         /\ \A force \in BOOLEAN, r \in 0..1 :
              RequestMusic(c, force, r) =>
                /\ alast'.ret = NoName
                /\ alast'.played = NoName
                /\ alast'.notified = <<>>
                /\ UNCHANGED <<playbackVars, playlists, mixer>>]_vars

\* a forced request for the category being played returned None after both
\* of its tracks had been disabled, and the engine plays on
C21_Witness ==
  /\ AllDisabled("menu")
  /\ Len(playlists["menu"].tracks) = 2
  /\ alast.op = "request_music" /\ alast.force
  /\ alast.category = "menu"
  /\ alast.ret = NoName
  /\ Playing /\ current_category = "menu"
  /\ playlists["menu"].current_index = 1

\* the callbacks of the list, and the place where each was first registered
Registered == {on_track_change[i] : i \in 1..Len(on_track_change)}
FirstPlace(callback) ==
  CHOOSE i \in 1..Len(on_track_change) :
    on_track_change[i] = callback /\ \A j \in 1..(i - 1) : on_track_change[j] # callback

\* C22: whenever playback switches tracks (a request_music that starts or
\* restarts a category, play_next, play_previous), every registered callback
\* is invoked exactly once with the new Track, in registration order; a
\* callback that raises does not stop the delivery to those after it and the
\* exception does not reach the caller; a callback that was just
\* unregistered is not invoked.
C22_EachCallbackNotifiedOnce ==
  [][alast'.played # NoName =>
       LET notified == alast'.notified IN
       /\ alast'.exc = "none"
       /\ \A callback \in Registered :
            Cardinality({i \in 1..Len(notified) :
                           /\ notified[i].callback = callback
                           /\ notified[i].track = current_track'}) = 1
       /\ \A i \in 1..Len(notified) : notified[i].callback \in Registered
       /\ \A i, j \in 1..Len(notified) :
            i < j => FirstPlace(notified[i].callback) < FirstPlace(notified[j].callback)
       /\ alast.op = "unregister_track_change_callback" =>
            \A i \in 1..Len(notified) : notified[i].callback # alast.callback]_vars

\* a value of [0,1] in hundredths, and what a value is clamped to
InUnitRange(volume) == volume \in 0..100
Clamped(v) == IF v < 0 THEN 0 ELSE IF v > 100 THEN 100 ELSE v

\* C23: master_volume, music_volume and effects_volume are within [0,1] in
\* every reachable state; each setter stores its argument clamped to [0,1],
\* whether below 0, above 1 or in range, and leaves the other two volumes
\* and the playback state unchanged.
C23_VolumesClamped ==
  /\ [](/\ InUnitRange(master_volume)
        /\ InUnitRange(music_volume)
        /\ InUnitRange(effects_volume))
  /\ [][\A v \in SliderInputs :
          /\ SetMasterVolume(v) =>
               /\ master_volume' = Clamped(v)
               /\ UNCHANGED <<music_volume, effects_volume, playbackVars>>
          /\ SetMusicVolume(v) =>
               /\ music_volume' = Clamped(v)
               /\ UNCHANGED <<master_volume, effects_volume, playbackVars>>
          /\ SetEffectsVolume(v) =>
               /\ effects_volume' = Clamped(v)
               /\ UNCHANGED <<master_volume, music_volume, playbackVars>>]_vars

\* while the engine is Paused the three setters were handed a value below
\* 0, one above 1 and one in range
C23_Witness ==
  /\ Paused
  /\ master_volume = 0
  /\ music_volume = 100
  /\ effects_volume = 40
  /\ alast.op = "set_master_volume"

\* C24: whenever a music stream is active (Playing or Paused) the gain
\* applied to it equals master_volume x music_volume: right after a track is
\* started and after every set_master_volume or set_music_volume call, in
\* any order; set_effects_volume never changes the applied gain.
C24_GainIsMasterTimesMusic ==
  /\ []((Playing \/ Paused) => mixer.volume = master_volume * music_volume)
  /\ [][\A v \in SliderInputs : SetEffectsVolume(v) => UNCHANGED mixer]_vars

\* master 0.5 and music 0.4 were set, music last, on a stream that plays:
\* the gain is 0.2
C24_Witness ==
  /\ Playing
  /\ alast.op = "set_music_volume"
  /\ master_volume = 50
  /\ music_volume = 40
  /\ mixer.volume = 2000
  /\ mixer.state = "playing"

\* the place of a file in the order of the scan of the audio directory
ScanPlace(filename) ==
  CHOOSE i \in 1..Len(AudioFiles) : AudioFiles[i].filename = filename

\* C25: when an engine is constructed from a persisted playlist
\* configuration, every scanned track the configuration does not mention is
\* kept in the playlist, placed after the configured tracks in the order of
\* the scan, and is enabled; a track is disabled after the construction only
\* if the configuration mentions it and not among its enabled tracks.
C25_UnmentionedTracksKeptEnabled ==
  [][(Restart /\ settings # None) =>
       \A c \in DOMAIN playlists' \cap DOMAIN PlaylistConfig(settings) :
         LET config == PlaylistConfig(settings)[c]
             tracks == playlists'[c].tracks
             Mentioned(i) == InSeq(tracks[i].filename, config.track_order)
         IN /\ Filenames(ScannedTracks(files, c))
                 = Filenames(SelectSeq(ScannedTracks(files, c),
                      LAMBDA t : InSeq(t.filename, Filenames(tracks))))
            /\ Len(tracks) = Len(ScannedTracks(files, c))
            /\ \A i, j \in 1..Len(tracks) :
                 /\ (Mentioned(i) /\ ~ Mentioned(j)) => i < j
                 /\ (~ Mentioned(i) /\ ~ Mentioned(j) /\ i < j) =>
                      ScanPlace(tracks[i].filename) < ScanPlace(tracks[j].filename)
            /\ \A i \in 1..Len(tracks) :
                 /\ ~ Mentioned(i) => tracks[i].enabled
                 /\ ~ tracks[i].enabled =>
                      /\ Mentioned(i)
                      /\ ~ InSeq(tracks[i].filename, config.enabled_tracks)]_vars

\* the operations that change the configuration of a playlist
MutatingPlaylistOps ==
  {"set_track_enabled", "toggle_track", "reorder_tracks", "set_shuffle", "set_repeat"}

\* the configuration of a playlist as it is persisted: the ordered file
\* names, those of the enabled tracks among them, shuffle and repeat
PersistedForm(pl) ==
  [track_order |-> [i \in 1..Len(pl.tracks) |-> pl.tracks[i].filename],
   enabled_tracks |->
     LET on == SelectSeq(pl.tracks, LAMBDA t : t.enabled)
     IN [i \in 1..Len(on) |-> on[i].filename],
   shuffle |-> pl.shuffle,
   repeat |-> pl.repeat]

\* C26: after every mutating playlist operation (enabling or disabling a
\* track, reorder_tracks, set_shuffle, set_repeat) on an existing category,
\* the value stored under playlist_config equals the serialization of the
\* playlists in memory: for each category the ordered file names, the
\* enabled subset, shuffle and repeat.
C26_ConfigSavedAfterEachChange ==
  [][(/\ alast'.op \in MutatingPlaylistOps
      /\ alast'.category \in DOMAIN playlists
      /\ settings # None)
     => /\ DOMAIN settings'.playlist_config = DOMAIN playlists'
        /\ \A c \in DOMAIN playlists' :
             settings'.playlist_config[c] = PersistedForm(playlists'[c])]_vars

\* the sound tab has just switched a track off in a playlist that was
\* reordered and shuffled, and the stored configuration says so
C26_Witness ==
  /\ alast.op = "toggle_track"
  /\ settings.playlist_config["menu"].track_order
       = <<"Main_Menu_2.mp3", "Main_Menu_1.mp3">>
  /\ settings.playlist_config["menu"].enabled_tracks = <<"Main_Menu_1.mp3">>
  /\ settings.playlist_config["menu"].shuffle
  /\ ~ settings.playlist_config["menu"].repeat
  /\ settings.playlist_config["battle"].enabled_tracks = <<>>

\* C27: in every reachable engine state the playback fields are mutually
\* consistent: paused implies playing; the engine is playing exactly when
\* current_track is set and exactly when current_category is set; and when
\* set, current_track belongs to the playlist of current_category and
\* carries that category.
C27_PlaybackFieldsConsistent ==
  /\ is_paused => is_playing
  /\ is_playing <=> current_track # None
  /\ is_playing <=> current_category # NoCategory
  /\ current_track # None =>
       /\ current_category \in DOMAIN playlists
       /\ current_track.category = current_category
       /\ \E i \in 1..Len(playlists[current_category].tracks) :
            LET t == playlists[current_category].tracks[i] IN
            /\ t.filename = current_track.filename
            /\ t.display_name = current_track.display_name
            /\ t.category = current_category

\* the engine is Paused on the battle track after the menu playlist was
\* skipped through, and a request for an unknown category changed nothing
C27_Witness ==
  /\ Paused
  /\ current_category = "battle"
  /\ current_track.filename = "Battle_1.mp3"
  /\ playlists["menu"].current_index = 1
  /\ alast.op = "request_music" /\ alast.category = "victory"

\* the track the engine holds as current is the one the cursor of the
\* playlist of the current category designates
CursorDesignatesCurrent ==
  /\ current_category \in DOMAIN playlists
  /\ get_current_track(playlists[current_category]) # None
  /\ current_track # None
  /\ current_track.filename
       = get_current_track(playlists[current_category]).filename

\* the operations after which C28 says the cursor designates the current
\* track
SkipAndConfigureOps ==
  {"play_next", "play_previous", "set_track_enabled", "reorder_tracks",
   "set_shuffle", "set_repeat"}

\* C28: while the engine is Playing or Paused in category c, its
\* current_track is the track that the cursor of c's playlist designates
\* (Playlist.get_current_track()), after any sequence of play_next,
\* play_previous, set_track_enabled, reorder_tracks, set_shuffle and
\* set_repeat calls: each of these calls, made while it is so, leaves it so.
C28_CursorDesignatesCurrentTrack ==
  [][(/\ alast'.op \in SkipAndConfigureOps
      /\ is_playing /\ CursorDesignatesCurrent
      /\ is_playing')
     => CursorDesignatesCurrent']_vars

\* C29: whenever a playlist has shuffle on, its shuffle order is a
\* permutation of the indices 0..n-1 of its n enabled tracks, in every state
\* reachable through set_shuffle, set_track_enabled, reorder_tracks,
\* next_track, previous_track and the construction from persisted settings.
C29_ShuffleOrderIsPermutation ==
  \A c \in DOMAIN playlists :
    playlists[c].shuffle =>
      LET n == Len(get_enabled_tracks(playlists[c]))
          order == playlists[c].shuffled_order
      IN /\ Len(order) = n
         /\ {order[i] : i \in 1..Len(order)} = 0..(n - 1)

\* the first place of x in seq, 0 if it is not there
PlaceIn(seq, x) ==
  IF InSeq(x, seq)
  THEN CHOOSE i \in 1..Len(seq) : seq[i] = x /\ \A j \in 1..(i - 1) : seq[j] # x
  ELSE 0

\* C30: reorder_tracks(category, new_order) only permutes the playlist: for
\* any new_order (with unknown file names, duplicates, or file names left
\* out) the resulting list holds exactly the tracks it held, each once; the
\* tracks named in new_order come first in the order given, the others
\* follow in their previous relative order; no track's enabled flag, nor
\* shuffle, repeat or the playback state of the engine, is changed.
C30_ReorderOnlyPermutes ==
  [][\A c \in {"menu", "victory"}, new_order \in ReorderInputs :
       ReorderTracks(c, new_order) =>
         /\ UNCHANGED <<playbackVars, mixer>>
         /\ DOMAIN playlists' = DOMAIN playlists
         /\ \A d \in DOMAIN playlists \ {c} : playlists'[d] = playlists[d]
         /\ c \in DOMAIN playlists =>
              LET old == playlists[c].tracks
                  new == playlists'[c].tracks
                  Named(t) == InSeq(t.filename, new_order)
              IN /\ Len(new) = Len(old)
                 /\ \A i \in 1..Len(old) :
                      Cardinality({j \in 1..Len(new) : new[j] = old[i]}) = 1
                 /\ \A i, j \in 1..Len(new) :
                      i < j =>
                        /\ Named(new[j]) => Named(new[i])
                        /\ Named(new[j]) =>
                             PlaceIn(new_order, new[i].filename)
                               < PlaceIn(new_order, new[j].filename)
                        /\ ~ Named(new[i]) => PlaceIn(old, new[i]) < PlaceIn(old, new[j])
                 /\ playlists'[c] = [playlists[c] EXCEPT !.tracks = new]]_vars

\* reorder_tracks was handed an order with a duplicate, an unknown file and
\* one file left out, on a shuffled playlist with a disabled track, while
\* the engine is Paused
C30_Witness ==
  /\ alast.op = "reorder_tracks"
  /\ Filenames(playlists["menu"].tracks)
       = <<"Main_Menu_2.mp3", "Main_Menu_1.mp3", "Main_Menu_3.ogg">>
  /\ ~ playlists["menu"].tracks[3].enabled
  /\ playlists["menu"].tracks[1].enabled
  /\ playlists["menu"].shuffle
  /\ Len(playlists["menu"].shuffled_order) = 3
  /\ Paused

TypeOK ==
  /\ now \in 0..MaxTime
  /\ nextId \in 1..(MaxIds + 1)
  /\ constructed \in BOOLEAN

====
